---- MODULE Spec2Model ----
(***************************************************************************)
(* Temporal tracking and validation engine of magasin-ia-vision            *)
(* (ai/temporal_detection.py) together with the store collaborator it      *)
(* persists to (services/validation_service.py).                           *)
(*                                                                         *)
(* Time is an integer number of clock ticks; datetime.now() is a read of   *)
(* the variable now.  Two reads made by one call may see different values. *)
(* Confidences are integer percentages (0.60 is 60).                       *)
(***************************************************************************)
EXTENDS Integers, Sequences, FiniteSets, TLC

\* ------------------------------------------------------------------ bounds

\* detection events held in all event logs together
MaxEvents == 2
\* calls made to the engine
MaxCalls == 5
\* the same two bounds for a burst of detections on one key
MaxBurstEvents == 5
MaxBurstCalls == 6

\* ------------------------------------------------------- program constants

\* ticks per second: strftime('%Y%m%d%H%M%S') cuts a timestamp to whole
\* seconds, datetime.now() is finer
TicksPerSecond == 2
\* total_seconds() / 60
SecondsPerMinute == 60
\* total_seconds() / 3600
SecondsPerHour == 3600
\* default confidence_threshold, in percent
DefaultConfidenceThreshold == 60

TicksPerMinute == SecondsPerMinute * TicksPerSecond
TicksPerHour == SecondsPerHour * TicksPerSecond

\* ------------------------------------------------------------------ inputs

ObjectTypes == {"drill", "mouse"}
Cameras == {"cam1", "cam2"}
\* what the cameras report: drills on both cameras, mice on the first
DetectionKeys == {<<"drill", "cam1">>, <<"drill", "cam2">>, <<"mouse", "cam1">>}
\* camera_id = None (no camera filter)
NoCamera == "none"
\* confidences reported by the detector, in percent
Confidences == {50, 60}
AdminIds == {"admin_1"}
Reasons == {"miscount"}
\* values the engine is constructed with
StabilityChoices == {0, 1}
AlertChoices == {1}
\* how a call into the store ends: it succeeds, it returns False, it raises
StoreOutcomes == {"ok", "fail", "raise"}
\* ticks the clock advances between two reads made by one call
Drift == {0, 1}

\* Python's None
None == "None"
\* None where a timestamp is expected
NoTime == -1

VARIABLES
    now,                         \* the wall clock, in ticks
    stability_duration_minutes,  \* engine setting
    confidence_threshold,        \* engine setting, percent
    alert_delay_hours,           \* engine setting
    active_trackings,            \* (object_type, camera_id) -> TemporalTracking
    validated_stock,             \* object_type -> quantity
    pending_validations,         \* validation_id -> validation_data
    next_serial,                 \* history: requests created so far
    alerted,                     \* history: serials check_alerts has returned
    calls,                       \* history: calls made so far
    last,                        \* history: the last call, its result and events
    max_calls,                   \* the bound on calls in force
    max_events,                  \* the bound on logged events in force
    workers,                     \* camera_id -> where its worker thread is in
                                 \* a call into the engine, and the call's locals
    running,                     \* AsyncVideoWorker.running
    thread,                      \* AsyncVideoWorker.thread: the last thread made
    frame_queue,                 \* AsyncVideoWorker.frame_queue, oldest first
    capture_loops,               \* the threads running _capture_loop, in the
                                 \* order of their creation
    frames,                      \* history: results produced so far
    joining,                     \* the caller of stop() is in thread.join
    overlapped,                  \* history: a thread was made while an earlier
                                 \* capture loop had not returned
    cameras,                     \* MultiCameraManager.cameras: camera_id -> worker
    camera_configs,              \* MultiCameraManager.camera_configs
    zones,                       \* MultiCameraManager.zones: zone_id -> Zone
    current_model,               \* MultiCameraManager.current_model
    current_tracker,             \* MultiCameraManager.current_tracker
    current_segmenter,           \* MultiCameraManager.current_segmenter
    pool,                        \* the AsyncVideoWorker objects made by
                                 \* add_camera, in the order of their creation
    requests,                    \* the requests received and not yet handled
    active_connections,          \* NotificationManager.active_connections
    peers,                       \* WebSocket -> new, open, closed by the peer,
                                 \* gone (its handler has returned)
    broadcasts,                  \* the broadcast tasks, in the order of their
                                 \* creation, with the locals of each
    process,                     \* the VideoWorker process of the desktop view
    result_queue,                \* VideoWorker.result_queue, oldest first
    approval                     \* the approve_validation call in progress on
                                 \* the event loop, with its locals

vars == <<now, stability_duration_minutes, confidence_threshold,
          alert_delay_hours, active_trackings, validated_stock,
          pending_validations, next_serial, alerted, calls, last,
          max_calls, max_events, workers, running, thread, frame_queue,
          capture_loops, frames, joining, overlapped, cameras,
          camera_configs, zones, current_model, current_tracker,
          current_segmenter, pool, requests, active_connections, peers,
          broadcasts, process, result_queue, approval>>

\* the bounds in force do not change
limits == <<max_calls, max_events>>

\* the supervisor of the cameras and the requests made to it
supervisor == <<cameras, camera_configs, zones, current_model,
                current_tracker, current_segmenter, pool, requests>>

\* the notification manager, its sockets and its broadcast tasks
notifier == <<active_connections, peers, broadcasts>>

\* the desktop view's worker process and the queue it fills
desktop == <<process, result_queue>>

\* what the program holds besides the engine and one worker
services == <<supervisor, notifier, desktop, approval>>

\* what the threads of the program hold
threads == <<workers, running, thread, frame_queue, capture_loops, frames,
             joining, overlapped, services>>

\* one AsyncVideoWorker, its queue and its capture threads
capture == <<running, thread, frame_queue, capture_loops, frames, joining,
             overlapped>>

\* the engine and its histories
engine_side == <<now, stability_duration_minutes, confidence_threshold,
                 alert_delay_hours, active_trackings, validated_stock,
                 pending_validations, next_serial, alerted>>

engine == <<active_trackings, validated_stock, pending_validations>>
settings == <<stability_duration_minutes, confidence_threshold,
              alert_delay_hours>>

\* --------------------------------------------------------------- the clock

\* the instants of the clock at which calls are made: the start, one tick
\* later (within the same second), one hour later
Instants == {0, 1, TicksPerHour}

\* the clock may move by d ticks from t
ClockMay(t, d) == t + d \in Instants

\* strftime('%Y%m%d%H%M%S'): the timestamp cut to whole seconds
strftime(t) == t \div TicksPerSecond

\* ------------------------------------------------------- TemporalTracking

TRACKING == "tracking"
STABLE == "stable"
PENDING_VALIDATION == "pending_validation"
VALIDATED == "validated"
REJECTED == "rejected"
TrackingStatus == {TRACKING, STABLE, PENDING_VALIDATION, VALIDATED, REJECTED}

DetectionEvent(object_type, camera_id, confidence, timestamp) ==
    [object_type |-> object_type, camera_id |-> camera_id,
     confidence |-> confidence, timestamp |-> timestamp]

TemporalTracking(object_type, camera_id, timestamp, threshold) ==
    [object_type |-> object_type, camera_id |-> camera_id,
     first_seen |-> timestamp, last_seen |-> timestamp,
     detection_count |-> 0, total_confidence |-> 0, avg_confidence |-> 0,
     status |-> TRACKING, stability_threshold_minutes |-> threshold,
     detected_quantity |-> 0, detection_events |-> <<>>]

update_confidence(t, confidence) ==
    [t EXCEPT !.total_confidence = @ + confidence,
              !.detection_count = @ + 1,
              !.avg_confidence =
                  (t.total_confidence + confidence) \div (t.detection_count + 1)]

\* last_seen - first_seen, in ticks (get_duration_minutes is this / TicksPerMinute)
get_duration(t) == t.last_seen - t.first_seen

\* is_stable with the comparison made strict
is_stable_strict(t) ==
    get_duration(t) > t.stability_threshold_minutes * TicksPerMinute

is_stable(t) ==
    get_duration(t) >= t.stability_threshold_minutes * TicksPerMinute

\* ------------------------------------------------- TemporalDetectionEngine

\* d[k] = v on a dict
Put(d, k, v) == [x \in DOMAIN d \cup {k} |-> IF x = k THEN v ELSE d[x]]

RECURSIVE SumOver(_, _)
\* sum of f[k] for k in S
SumOver(f, S) ==
    IF S = {} THEN 0
    ELSE LET k == CHOOSE x \in S : TRUE IN f[k] + SumOver(f, S \ {k})

RECURSIVE MaxOver(_, _)
\* max of f[k] for k in the non-empty set S
MaxOver(f, S) ==
    LET k == CHOOSE x \in S : TRUE
    IN IF S = {k} THEN f[k]
       ELSE LET m == MaxOver(f, S \ {k}) IN IF f[k] >= m THEN f[k] ELSE m

\* events held in all event logs together
TotalEvents ==
    SumOver([k \in DOMAIN active_trackings |->
                Len(active_trackings[k].detection_events)],
            DOMAIN active_trackings)

\* the call record kept as history: the operation, its arguments, what it
\* returned, how its call into the store ended, the notification it emitted
Call(op, arg, result, store, notified) ==
    [op |-> op, arg |-> arg, result |-> result, store |-> store,
     notified |-> notified]

\* one more call, within the bound
Counted == calls < max_calls /\ calls' = calls + 1 /\ UNCHANGED limits

\* below_threshold with the threshold taken as a fraction of a percentage
below_threshold_fraction(confidence) == confidence < confidence_threshold \div 100

\* process_detection: the confidence test that ignores a detection
below_threshold(confidence) == confidence < confidence_threshold

\* process_detection: the tracking of key, created when the key is new
get_or_create(key, timestamp) ==
    IF key \in DOMAIN active_trackings
    THEN active_trackings[key]
    ELSE TemporalTracking(key[1], key[2], timestamp, stability_duration_minutes)

\* process_detection: last_seen, the running confidence and the event log
update_tracking(t, confidence, timestamp) ==
    LET u == update_confidence([t EXCEPT !.last_seen = timestamp], confidence)
    IN [u EXCEPT !.detection_events =
            Append(@, DetectionEvent(t.object_type, t.camera_id,
                                     confidence, timestamp))]

\* became_stable without the test of the tracking's status
became_stable_any_status(t) == is_stable(t)

\* process_detection: the test for TRACKING -> STABLE
became_stable(t) == t.status = TRACKING /\ is_stable(t)

\* process_detection(object_type, camera_id, confidence, bbox), timestamp = now
ProcessDetection(object_type, camera_id, confidence) ==
    LET key == <<object_type, camera_id>> IN
    /\ Counted
    /\ IF below_threshold(confidence)
       THEN /\ last' = Call("process_detection",
                            <<object_type, camera_id, confidence>>, None, None, None)
            /\ UNCHANGED <<now, settings, engine, next_serial, alerted>>
       ELSE LET t == update_tracking(get_or_create(key, now), confidence, now)
                stable == became_stable(t)
            IN /\ TotalEvents < max_events
               /\ active_trackings' =
                      Put(active_trackings, key,
                          IF stable THEN [t EXCEPT !.status = STABLE] ELSE t)
               /\ last' = Call("process_detection",
                               <<object_type, camera_id, confidence>>,
                               IF stable THEN "stable" ELSE "tracking", None, None)
               /\ UNCHANGED <<now, settings, validated_stock, pending_validations,
                              next_serial, alerted>>

\* matching without the camera filter
matching_any_camera(object_type, camera_id) ==
    {k \in DOMAIN active_trackings : k[1] = object_type}

\* the trackings of object_type, on camera_id when one is given
matching(object_type, camera_id) ==
    {k \in DOMAIN active_trackings :
        /\ k[1] = object_type
        /\ (camera_id = NoCamera \/ k[2] = camera_id)}

\* recent_events taking the whole event log
recent_events_lifetime(t) == 1..Len(t.detection_events)

\* count_stable_objects: the events of t within the stability window
recent_events(t) ==
    {i \in 1..Len(t.detection_events) :
        t.last_seen - t.detection_events[i].timestamp
            <= stability_duration_minutes * TicksPerMinute}

count_stable_objects(object_type, camera_id) ==
    LET counted == {k \in matching(object_type, camera_id) :
                       active_trackings[k].status \in {STABLE, PENDING_VALIDATION}}
    IN SumOver([k \in counted |-> Cardinality(recent_events(active_trackings[k]))],
               counted)

\* calculate_stock_delta: (current_validated, detected_stable, delta)
calculate_stock_delta(object_type, camera_id) ==
    LET current_validated == validated_stock[object_type]
        detected_stable == count_stable_objects(object_type, camera_id)
    IN <<current_validated, detected_stable, detected_stable - current_validated>>

\* ------------------------------------------------- the store collaborator
\* The store's tables are not part of the state.  A call into the store ends
\* in one of StoreOutcomes, whatever the tables hold:
\*   "ok"    create_request returns the row; approve_request / reject_request
\*           commit and return True;
\*   "fail"  approve_request / reject_request return False (no pending row,
\*           unknown equipment type, or an exception caught and rolled back);
\*   "raise" the call raises: create_request re-raises after its rollback,
\*           and the import of the service can fail for any of the three.

\* ------------------------------------------------------ validation workflow

\* f"VAL-{object_type}-{datetime.now().strftime('%Y%m%d%H%M%S')}"
validation_id(object_type, t) == <<"VAL", object_type, strftime(t)>>

\* create_validation_request: the STABLE trackings the request is built from
stable_trackings(object_type, camera_id) ==
    {k \in matching(object_type, camera_id) : active_trackings[k].status = STABLE}

\* create_validation_request: the request record; id_time and created_at are
\* two reads of the clock
validation_data(object_type, camera_id, trackings, id_time, created_at) ==
    LET sd == calculate_stock_delta(object_type, camera_id) IN
    [id |-> validation_id(object_type, id_time),
     object_type |-> object_type,
     camera_ids |-> {k[2] : k \in trackings},
     quantity_delta |-> sd[3],
     current_quantity |-> sd[1],
     proposed_quantity |-> sd[2],
     avg_confidence |->
         SumOver([k \in trackings |-> active_trackings[k].avg_confidence],
                 trackings) \div Cardinality(trackings),
     detection_duration |->
         MaxOver([k \in trackings |-> get_duration(active_trackings[k])],
                 trackings),
     status |-> "pending",
     created_at |-> created_at,
     alert_sent_at |-> NoTime,
     validated_at |-> NoTime,
     validated_by |-> None,
     rejection_reason |-> None,
     serial |-> next_serial + 1]

\* mark_pending taking every tracking of the object type, whatever its camera
\* and status
mark_pending_type(trackings) ==
    [k \in DOMAIN active_trackings |->
        IF \E j \in trackings : j[1] = k[1]
        THEN [active_trackings[k] EXCEPT !.status = PENDING_VALIDATION]
        ELSE active_trackings[k]]

\* create_validation_request: the trackings of the request go to PENDING_VALIDATION
mark_pending(trackings) ==
    [k \in DOMAIN active_trackings |->
        IF k \in trackings
        THEN [active_trackings[k] EXCEPT !.status = PENDING_VALIDATION]
        ELSE active_trackings[k]]

\* nothing_to_validate without the test of the delta
nothing_to_validate_no_stable(delta, trackings) == trackings = {}

\* create_validation_request: the two early returns, on a delta of zero and
\* on no STABLE tracking
nothing_to_validate(delta, trackings) == delta = 0 \/ trackings = {}

\* create_aborts taking a raise of the store as the end of the call
create_aborts_on_raise(store) == store = "raise"

\* create_validation_request: the persistence step aborts the call; the
\* except clause logs the failure and the call goes on, so it never does
create_aborts(store) == FALSE

\* create_validation_request(object_type, camera_id); d is the clock's advance
\* between the read that names the request and the read that dates it
CreateRequest(object_type, camera_id, store, d) ==
    LET sd == calculate_stock_delta(object_type, camera_id)
        trackings == stable_trackings(object_type, camera_id)
    IN /\ IF nothing_to_validate(sd[3], trackings)
          THEN /\ d = 0 /\ store = "ok"
               /\ last' = Call("create_validation_request",
                               <<object_type, camera_id>>, None, None, None)
               /\ UNCHANGED <<now, settings, engine, next_serial,
                              alerted>>
          ELSE LET data == validation_data(object_type, camera_id, trackings,
                                           now, now + d)
               IN /\ ClockMay(now, d)
                  /\ now' = now + d
                  /\ pending_validations' = Put(pending_validations, data.id, data)
                  /\ next_serial' = next_serial + 1
                  /\ IF create_aborts(store)
                     THEN /\ last' = Call("create_validation_request",
                                          <<object_type, camera_id>>, None, store,
                                          None)
                          /\ UNCHANGED active_trackings
                     ELSE /\ active_trackings' = mark_pending(trackings)
                          /\ last' = Call("create_validation_request",
                                          <<object_type, camera_id>>, data, store,
                                          "VALIDATION_CREATED")
                  /\ UNCHANGED <<settings, validated_stock, alerted>>

\* create_validation_request, as one more call
CreateValidationRequest(object_type, camera_id, store, d) ==
    /\ Counted
    /\ CreateRequest(object_type, camera_id, store, d)

\* not_processable without the test of the request's status
not_processable_unknown_only(id) == id \notin DOMAIN pending_validations

\* approve_validation / reject_validation: the request cannot be processed
not_processable(id) ==
    \/ id \notin DOMAIN pending_validations
    \/ pending_validations[id].status # "pending"

\* approve_aborts with the except clause going on instead of returning
approve_aborts_never(store) == FALSE

\* approve_validation: the persistence step aborts the call (the except
\* clause); what approve_request returns is not looked at
approve_aborts(store) == store = "raise"

\* reject_validation: the persistence step aborts the call (the except
\* clause); what reject_request returns is not looked at
reject_aborts(store) == store = "raise"

\* approve_validation: validated_stock after the approval of validation
approved_stock(validation) ==
    [validated_stock EXCEPT ![validation.object_type] = validation.proposed_quantity]

\* approve_validation: the request after its approval
approved_request(validation, admin_id, t) ==
    [validation EXCEPT !.status = "approved", !.validated_at = t,
                       !.validated_by = admin_id]

\* mark_validated testing for STABLE instead of PENDING_VALIDATION
mark_validated_stable(object_type) ==
    [k \in DOMAIN active_trackings |->
        IF k[1] = object_type /\ active_trackings[k].status = STABLE
        THEN [active_trackings[k] EXCEPT !.status = VALIDATED]
        ELSE active_trackings[k]]

\* mark_validated without the test of the tracking's status
mark_validated_any_status(object_type) ==
    [k \in DOMAIN active_trackings |->
        IF k[1] = object_type
        THEN [active_trackings[k] EXCEPT !.status = VALIDATED]
        ELSE active_trackings[k]]

\* approve_validation: PENDING_VALIDATION trackings of the type go to VALIDATED
mark_validated(object_type) ==
    [k \in DOMAIN active_trackings |->
        IF k[1] = object_type /\ active_trackings[k].status = PENDING_VALIDATION
        THEN [active_trackings[k] EXCEPT !.status = VALIDATED]
        ELSE active_trackings[k]]

\* approve_validation(validation_id, admin_id); store is how the call into the
\* store ends
ApproveValidation(id, admin_id, store) ==
    /\ Counted
    /\ IF not_processable(id)
       THEN /\ store = "ok"
            /\ last' = Call("approve_validation", <<id, admin_id>>, FALSE, None, None)
            /\ UNCHANGED <<now, settings, engine, next_serial, alerted>>
       ELSE IF approve_aborts(store)
       THEN /\ last' = Call("approve_validation", <<id, admin_id>>, FALSE, store, None)
            /\ UNCHANGED <<now, settings, engine, next_serial, alerted>>
       ELSE LET validation == pending_validations[id] IN
            /\ validated_stock' = approved_stock(validation)
            /\ pending_validations' =
                   [pending_validations EXCEPT
                       ![id] = approved_request(validation, admin_id, now)]
            /\ active_trackings' = mark_validated(validation.object_type)
            /\ last' = Call("approve_validation", <<id, admin_id>>, TRUE, store,
                            "VALIDATION_APPROVED")
            /\ UNCHANGED <<now, settings, next_serial, alerted>>

\* reject_validation: the request after its rejection
rejected_request(validation, admin_id, reason, t) ==
    [validation EXCEPT !.status = "rejected", !.validated_at = t,
                       !.validated_by = admin_id, !.rejection_reason = reason]

\* reject_validation: a tracking after its reset; first and last_read are the
\* two reads of the clock that set first_seen and last_seen
reset_tracking(t, first, last_read) ==
    [t EXCEPT !.status = REJECTED, !.detection_events = <<>>,
              !.first_seen = first, !.last_seen = last_read,
              !.detection_count = 0, !.total_confidence = 0,
              !.avg_confidence = 0]

\* reject_validation: PENDING_VALIDATION trackings of the type are reset
mark_rejected(object_type, first, last_read) ==
    [k \in DOMAIN active_trackings |->
        IF k[1] = object_type /\ active_trackings[k].status = PENDING_VALIDATION
        THEN reset_tracking(active_trackings[k], first, last_read)
        ELSE active_trackings[k]]

\* reject_validation(validation_id, admin_id, reason); d is the clock's advance
\* between the reads that set first_seen and last_seen
RejectValidation(id, admin_id, reason, store, d) ==
    /\ Counted
    /\ IF not_processable(id)
       THEN /\ store = "ok" /\ d = 0
            /\ last' = Call("reject_validation", <<id, admin_id, reason>>, FALSE,
                            None, None)
            /\ UNCHANGED <<now, settings, engine, next_serial, alerted>>
       ELSE IF reject_aborts(store)
       THEN /\ d = 0
            /\ last' = Call("reject_validation", <<id, admin_id, reason>>, FALSE,
                            store, None)
            /\ UNCHANGED <<now, settings, engine, next_serial, alerted>>
       ELSE LET validation == pending_validations[id] IN
            /\ ClockMay(now, d)
            /\ now' = now + d
            /\ pending_validations' =
                   [pending_validations EXCEPT
                       ![id] = rejected_request(validation, admin_id, reason, now)]
            /\ active_trackings' = mark_rejected(validation.object_type, now, now + d)
            /\ last' = Call("reject_validation", <<id, admin_id, reason>>, TRUE,
                            store, "VALIDATION_REJECTED")
            /\ UNCHANGED <<settings, validated_stock, next_serial, alerted>>

\* alert_due without the test of alert_sent_at
alert_due_resend(validation, current_time) ==
    /\ validation.status = "pending"
    /\ current_time - validation.created_at >= alert_delay_hours * TicksPerHour

\* check_alerts: the request is pending, not alerted, and old enough
alert_due(validation, current_time) ==
    /\ validation.status = "pending"
    /\ validation.alert_sent_at = NoTime
    /\ current_time - validation.created_at >= alert_delay_hours * TicksPerHour

\* check_alerts: the request once its alert is returned
alert_sent(validation, current_time) ==
    [validation EXCEPT !.alert_sent_at = current_time]

\* check_alerts(); the result is the set of the requests returned
CheckAlerts ==
    LET due == {id \in DOMAIN pending_validations :
                   alert_due(pending_validations[id], now)}
    IN /\ Counted
       /\ pending_validations' =
              [id \in DOMAIN pending_validations |->
                  IF id \in due
                  THEN alert_sent(pending_validations[id], now)
                  ELSE pending_validations[id]]
       /\ alerted' = alerted \cup {pending_validations[id].serial : id \in due}
       /\ last' = Call("check_alerts", None,
                       {pending_validations[id].serial : id \in due}, None, None)
       /\ UNCHANGED <<now, settings, active_trackings, validated_stock,
                      next_serial>>

\* ---------------------------------------------------------------- the clock

\* time passes between two calls
AdvanceClock(d) ==
    /\ d > 0
    /\ ClockMay(now, d)
    /\ now' = now + d
    /\ last' = Call("clock", None, None, None, None)
    /\ UNCHANGED <<calls, settings, engine, next_serial, alerted, limits>>

\* --------------------------------------------------- ConfigurationManager

\* calls and logged events when the settings change at run time
MaxConfigCalls == 4
MaxConfigEvents == 3

\* the values the settings are changed to; the threshold in percent
ThresholdChoices == {50, 60}
ConfigChoices ==
    ({"stability_duration_minutes"} \X StabilityChoices)
    \cup ({"confidence_threshold"} \X ThresholdChoices)

\* set_config(key, value): the row is written and committed, then
\* _update_temporal_engine assigns the engine's settings from the configured
\* values, of which only that of key has changed; a commit that raises is
\* rolled back and nothing is assigned
SetConfig(key, value, store) ==
    /\ Counted
    /\ IF store = "ok"
       THEN /\ stability_duration_minutes' =
                  IF key = "stability_duration_minutes"
                  THEN value ELSE stability_duration_minutes
            /\ confidence_threshold' =
                  IF key = "confidence_threshold"
                  THEN value ELSE confidence_threshold
            /\ UNCHANGED alert_delay_hours
       ELSE UNCHANGED settings
    /\ last' = Call("set_config", <<key, value>>, store = "ok", store, None)
    /\ UNCHANGED <<now, engine, next_serial, alerted>>

\* ------------------------------- worker threads calling into the one engine
\* Each camera's worker runs its pipeline in a thread of its own; all of them
\* call the same engine, which takes no lock.  A call is made of the steps
\* below, and the steps of different workers interleave.

\* the object type the cameras report
CameraType == "drill"

\* calls into the engine and logged events, with several workers
MaxWorkerCalls == 4
MaxWorkerEvents == 3

\* what a count returns when the dict it iterates over has changed size
\* (RuntimeError: dictionary changed size during iteration)
RuntimeError == -1

\* a worker that is in no call
IdleWorker == [pc |-> "idle", confidence |-> 0, timestamp |-> NoTime, size |-> 0]

\* the events logged or about to be
EventsInFlight ==
    TotalEvents
    + Cardinality({c \in Cameras : workers[c].pc \in {"lookup", "log", "append"}})

\* process_detection, up to the making of the event: the confidence test and
\* the read of the clock
BeginDetection(cam, confidence) ==
    /\ workers[cam].pc = "idle"
    /\ Counted
    /\ IF below_threshold(confidence)
       THEN /\ last' = Call("process_detection", <<CameraType, cam, confidence>>,
                            None, None, None)
            /\ UNCHANGED workers
       ELSE /\ EventsInFlight < max_events
            /\ workers' = [workers EXCEPT ![cam] =
                              [pc |-> "lookup", confidence |-> confidence,
                               timestamp |-> now, size |-> 0]]
            /\ last' = Call("step", <<CameraType, cam>>, None, None, None)
    /\ UNCHANGED <<now, settings, engine, next_serial, alerted>>

\* process_detection: get or create the tracking of the key
LookupTracking(cam) ==
    LET key == <<CameraType, cam>> IN
    /\ workers[cam].pc = "lookup"
    /\ active_trackings' =
           Put(active_trackings, key, get_or_create(key, workers[cam].timestamp))
    /\ workers' = [workers EXCEPT ![cam].pc = "log"]
    /\ last' = Call("step", key, None, None, None)
    /\ UNCHANGED <<now, settings, validated_stock, pending_validations,
                   next_serial, alerted, calls, limits>>

\* process_detection: last_seen, the running confidence and the event log
LogDetection(cam) ==
    LET key == <<CameraType, cam>> IN
    /\ workers[cam].pc = "log"
    /\ active_trackings' =
           [active_trackings EXCEPT ![key] =
               update_tracking(@, workers[cam].confidence, workers[cam].timestamp)]
    /\ workers' = [workers EXCEPT ![cam].pc = "settle"]
    /\ last' = Call("step", key, None, None, None)
    /\ UNCHANGED <<now, settings, validated_stock, pending_validations,
                   next_serial, alerted, calls, limits>>

\* process_detection: the test for TRACKING -> STABLE and the return
SettleStatus(cam) ==
    LET key == <<CameraType, cam>>
        stable == became_stable(active_trackings[key])
    IN /\ workers[cam].pc = "settle"
       /\ active_trackings' =
              [active_trackings EXCEPT ![key].status = IF stable THEN STABLE ELSE @]
       /\ workers' = [workers EXCEPT ![cam] = IdleWorker]
       /\ last' = Call("process_detection",
                       <<CameraType, cam, workers[cam].confidence>>,
                       IF stable THEN "stable" ELSE "tracking", None, None)
       /\ UNCHANGED <<now, settings, validated_stock, pending_validations,
                      next_serial, alerted, calls, limits>>

\* count_stable_objects(CameraType, cam): the iteration over the dict starts
BeginCount(cam) ==
    /\ workers[cam].pc = "idle"
    /\ Counted
    /\ workers' = [workers EXCEPT ![cam].pc = "count",
                                  ![cam].size = Cardinality(DOMAIN active_trackings)]
    /\ last' = Call("step", <<CameraType, cam>>, None, None, None)
    /\ UNCHANGED <<now, settings, engine, next_serial, alerted>>

\* count_stable_objects(CameraType, cam): the iteration ends, with the count,
\* or with RuntimeError when a tracking was inserted meanwhile
EndCount(cam) ==
    /\ workers[cam].pc = "count"
    /\ workers' = [workers EXCEPT ![cam] = IdleWorker]
    /\ last' = Call("count_stable_objects", <<CameraType, cam>>,
                    IF Cardinality(DOMAIN active_trackings) # workers[cam].size
                    THEN RuntimeError
                    ELSE count_stable_objects(CameraType, cam),
                    None, None)
    /\ UNCHANGED <<now, settings, engine, next_serial, alerted, calls, limits>>

\* ------------------------------------------------------- AsyncVideoWorker
\* One worker: start(), stop() and get_frame() are called from outside, one
\* call after the other; each thread made by start() runs _capture_loop.  The
\* steps of the threads and the calls interleave.

\* queue.Queue(maxsize=2)
QueueSize == 2
\* threads made by start(), results produced, calls of start / stop / get_frame
MaxLoops == 2
MaxFrames == 3
MaxControlCalls == 4

\* self.thread = None
NoThread == 0

\* how the opening of the source and of the detector ends
OpenOutcomes == {"opened", "no_source", "no_detector"}

\* the capture loops that have not returned
live_loops == {th \in DOMAIN capture_loops : capture_loops[th].pc # "done"}

\* full() that never reports a full queue
full_never(q) == FALSE

\* Queue.full()
full(q) == Len(q) >= QueueSize

\* Queue.get_nowait() under "except: pass": the queue without its oldest entry
get_nowait(q) == IF q = <<>> THEN q ELSE Tail(q)

\* Queue.put_nowait(item) under "except Exception: pass": Full drops the item
put_nowait(q, item) == IF full(q) THEN q ELSE Append(q, item)

\* how pipeline.process_frame ends for a frame: with detections, with none,
\* with an exception
PipelineOutcomes == {"detections", "nothing", "raises"}

\* a capture loop before its source is opened
NewLoop == [pc |-> "open", item |-> 0, detections |-> 0, raised |-> FALSE]

\* handled_frame with the exception of the pipeline ending the thread
handled_frame_uncaught(frame, outcome) ==
    [pc |-> IF outcome = "raises" THEN "done" ELSE "full", item |-> frame,
     detections |-> IF outcome = "detections" THEN 1 ELSE 0,
     raised |-> outcome = "raises"]

\* _capture_loop: the result of a frame put through the pipeline, about to be
\* pushed; the except clause makes it the frame with no detection
handled_frame(frame, outcome) ==
    [pc |-> "full", item |-> frame,
     detections |-> IF outcome = "detections" THEN 1 ELSE 0,
     raised |-> outcome = "raises"]

\* start()
Start ==
    /\ ~joining
    /\ Counted
    /\ IF running
       THEN /\ last' = Call("start", None, None, None, None)
            /\ UNCHANGED capture
       ELSE /\ Len(capture_loops) < MaxLoops
            /\ running' = TRUE
            /\ capture_loops' = Append(capture_loops, NewLoop)
            /\ thread' = Len(capture_loops) + 1
            /\ overlapped' = (overlapped \/ live_loops # {})
            /\ last' = Call("start", None, None, None, "started")
            /\ UNCHANGED <<frame_queue, frames, joining>>
    /\ UNCHANGED <<engine_side, workers, services>>

\* stop(), up to the join of the thread
Stop ==
    /\ ~joining
    /\ Counted
    /\ running' = FALSE
    /\ joining' = (thread # NoThread)
    /\ last' = Call("stop", None, None, None, None)
    /\ UNCHANGED <<thread, frame_queue, capture_loops, frames, overlapped>>
    /\ UNCHANGED <<engine_side, workers, services>>

\* stop(): thread.join(timeout=2) returns, the thread having ended or the two
\* seconds having passed
JoinReturns(timed_out) ==
    /\ joining
    /\ timed_out \/ capture_loops[thread].pc = "done"
    /\ joining' = FALSE
    /\ last' = Call("join", thread, timed_out, None, None)
    /\ UNCHANGED <<running, thread, frame_queue, capture_loops, frames,
                   overlapped>>
    /\ UNCHANGED <<engine_side, workers, services, calls,
                 limits>>

\* _capture_loop, before the loop: the source and the detector are opened
OpenSource(th, outcome) ==
    /\ capture_loops[th].pc = "open"
    /\ capture_loops' = [capture_loops EXCEPT
                            ![th].pc = IF outcome = "opened" THEN "test" ELSE "done"]
    /\ running' = IF outcome = "no_source" THEN FALSE ELSE running
    /\ last' = Call("open", th, outcome, None, None)
    /\ UNCHANGED <<thread, frame_queue, frames, joining, overlapped>>
    /\ UNCHANGED <<engine_side, workers, services, calls,
                 limits>>

\* _capture_loop: the test of self.running and, when it holds, one frame read
\* (ret) and put through the pipeline (outcome); a read that fails goes back
\* to the test
NextFrame(th, ret, outcome) ==
    /\ capture_loops[th].pc = "test"
    /\ IF ~running
       THEN /\ ret /\ outcome = "nothing"
            /\ capture_loops' = [capture_loops EXCEPT ![th].pc = "done"]
            /\ last' = Call("release", th, None, None, None)
            /\ UNCHANGED frames
       ELSE IF ~ret
       THEN /\ outcome = "nothing"
            /\ last' = Call("read", th, FALSE, None, None)
            /\ UNCHANGED <<frames, capture_loops>>
       ELSE /\ frames < MaxFrames
            /\ frames' = frames + 1
            /\ capture_loops' = [capture_loops EXCEPT ![th] =
                                    handled_frame(frames + 1, outcome)]
            /\ last' = Call("process_frame", th, frames + 1, None, None)
    /\ UNCHANGED <<running, thread, frame_queue, joining, overlapped>>
    /\ UNCHANGED <<engine_side, workers, services, calls,
                 limits>>

\* _capture_loop: if self.frame_queue.full()
TestFull(th) ==
    /\ capture_loops[th].pc = "full"
    /\ capture_loops' = [capture_loops EXCEPT
                            ![th].pc = IF full(frame_queue) THEN "evict" ELSE "put"]
    /\ last' = Call("full", th, full(frame_queue), None, None)
    /\ UNCHANGED <<running, thread, frame_queue, frames, joining, overlapped>>
    /\ UNCHANGED <<engine_side, workers, services, calls,
                 limits>>

\* _capture_loop: try: self.frame_queue.get_nowait() / except: pass
Evict(th) ==
    /\ capture_loops[th].pc = "evict"
    /\ frame_queue' = get_nowait(frame_queue)
    /\ capture_loops' = [capture_loops EXCEPT ![th].pc = "put"]
    /\ last' = Call("evict", th, None, None, None)
    /\ UNCHANGED <<running, thread, frames, joining, overlapped>>
    /\ UNCHANGED <<engine_side, workers, services, calls,
                 limits>>

\* _capture_loop: self.frame_queue.put_nowait(...) / except Exception: pass
PutFrame(th) ==
    /\ capture_loops[th].pc = "put"
    /\ frame_queue' = put_nowait(frame_queue, capture_loops[th].item)
    /\ capture_loops' = [capture_loops EXCEPT ![th].pc = "test"]
    /\ last' = Call("put_nowait", th, capture_loops[th].item, None, None)
    /\ UNCHANGED <<running, thread, frames, joining, overlapped>>
    /\ UNCHANGED <<engine_side, workers, services, calls,
                 limits>>

\* get_frame(), called by the consumer; 0 stands for its None
GetFrame ==
    /\ Counted
    /\ frame_queue' = get_nowait(frame_queue)
    /\ last' = Call("get_frame", None,
                    IF frame_queue = <<>> THEN 0 ELSE Head(frame_queue), None, None)
    /\ UNCHANGED <<running, thread, capture_loops, frames, joining,
                   overlapped>>
    /\ UNCHANGED <<engine_side, workers, services>>

\* -------------------------------------------------------------- VideoWorker
\* The desktop view runs its camera in a process of its own, VideoWorker,
\* which sends its results to the view through result_queue.

\* multiprocessing.Queue(maxsize=3)
ResultQueueSize == 3

\* the process before start(): item is the serial of the last frame taken,
\* raised tells that the inference of that frame raised
NewProcess == [pc |-> "new", running |-> FALSE, detector |-> FALSE,
               item |-> 0, raised |-> FALSE]

\* run(): the result of a frame is sent; an exception of the inference, or
\* an empty result, sends nothing
sent(detector, outcome) == detector /\ outcome = "detections"

\* run(): if self.result_queue.full(): get_nowait(); put(...)
send(q, result) ==
    Append(IF Len(q) >= ResultQueueSize THEN Tail(q) ELSE q, result)

\* start_camera(): the process is started; run() sets running, starts the
\* stream and loads the detector, going on without it when the load fails
VideoWorkerStart(loaded) ==
    /\ process.pc = "new"
    /\ Counted
    /\ process' = [process EXCEPT !.pc = "loop", !.running = TRUE,
                                  !.detector = loaded]
    /\ last' = Call("run", None, loaded, None, None)
    /\ UNCHANGED result_queue

\* run(): one pass of the loop; ready tells that the stream has a frame,
\* outcome how detector.track ends for it
VideoWorkerPass(ready, outcome) ==
    /\ process.pc = "loop"
    /\ process.running
    /\ IF ~ready
       THEN /\ outcome = "nothing"
            /\ last' = Call("pass", None, None, None, None)
            /\ UNCHANGED <<process, result_queue>>
       ELSE /\ process.item < MaxFrames
            /\ process' = [process EXCEPT
                              !.item = @ + 1,
                              !.raised = process.detector /\ outcome = "raises"]
            /\ result_queue' =
                   IF sent(process.detector, outcome)
                   THEN send(result_queue,
                             [item |-> process.item + 1, detections |-> 1])
                   ELSE result_queue
            /\ last' = Call("track", process.item + 1,
                            IF process.detector THEN outcome ELSE "no_detector",
                            None, None)
    /\ UNCHANGED <<calls, limits>>

\* stop(): running.clear(), the STOP command, join(timeout=2.0) and
\* terminate() when the process is still alive
VideoWorkerStop ==
    /\ process.pc = "loop"
    /\ Counted
    /\ process' = [process EXCEPT !.pc = "done", !.running = FALSE]
    /\ last' = Call("stop", None, None, None, None)
    /\ UNCHANGED result_queue

\* CameraView.update_frame(): result_queue.get_nowait(); 0 stands for Empty
UpdateFrame ==
    /\ Counted
    /\ result_queue' = get_nowait(result_queue)
    /\ last' = Call("update_frame", None,
                    IF result_queue = <<>> THEN 0 ELSE Head(result_queue).item,
                    None, None)
    /\ UNCHANGED process

\* ----------------------------------------------------- MultiCameraManager
\* The supervisor is called by the server's endpoints.  Each endpoint is a
\* coroutine of the one event loop and calls the supervisor without awaiting
\* in between, so a call runs to its end before another request is handled:
\* requests that are in flight together are handled whole, in any order.
\* The capture threads of the workers run beside them.

\* AsyncVideoWorker objects made, requests received
MaxWorkers == 2
MaxRequests == 3

\* self.current_model = "yolov8n"
DefaultModel == "yolov8n"

\* the clients with a request in flight
Clients == {"a", "b"}

CameraIds == {"CAM-1", "CAM-2"}
ZoneIds == {"ZONE-1", "ZONE-2"}

\* the names the endpoints are called with: a model of model_map, a model
\* that is not in it; a tracker, "none"; a segmenter of sam_map
ModelIds == {"yolov11n", "yolov5"}
TrackerIds == {"bytetrack", "none"}
SegmenterIds == {"sam2-tiny"}

\* set_model: model_map, two of its five entries
model_map == [m \in {"yolov8n", "yolov11n"} |->
                 IF m = "yolov8n" THEN "yolov8n.pt" ELSE "yolo11n.pt"]

\* set_segmenter: sam_map, one of its four entries
sam_map == [m \in {"sam2-tiny"} |-> "sam2_t.pt"]

\* how the loading of a model ends: YOLO(path) / SAM(path) and .to(device)
\* succeed, the constructor raises, .to(device) raises
LoadOutcomes == {"loaded", "not_loaded", "not_moved"}

\* self.detector = None
NoDetector ==
    [model_path |-> None, model |-> None, sam_path |-> None, sam_model |-> None]

\* ObjectDetector(model_path): the model of the path is loaded, no segmenter
ObjectDetector(path) ==
    [model_path |-> path, model |-> path, sam_path |-> None, sam_model |-> None]

\* AsyncVideoWorker(source, camera_id, model_id, tracker_id, segmentation_id)
\* pc is where the worker's capture thread is; stopped records a stop()
AsyncVideoWorker(camera_id, model_id, tracker_id, segmentation_id) ==
    [camera_id |-> camera_id, running |-> FALSE, stopped |-> FALSE,
     pc |-> "new", detector |-> NoDetector, model_id |-> model_id,
     tracker_id |-> tracker_id, segmentation_id |-> segmentation_id]

\* worker.start()
start(w) ==
    IF w.running THEN w ELSE [w EXCEPT !.running = TRUE, !.pc = "open"]

\* worker.stop(): the join returns no value, within its two seconds or at
\* their end; what the thread does meanwhile are steps of the thread
stop(w) == [w EXCEPT !.running = FALSE, !.stopped = TRUE]

\* running after a source that cannot be opened, left as it was
opened_running_kept(w, outcome) == w.running

\* _capture_loop: self.running after the source was tried
opened_running(w, outcome) == IF outcome = "no_source" THEN FALSE ELSE w.running

\* _capture_loop, before the loop, of the worker pool[i]
WorkerOpens(i, outcome) ==
    /\ pool[i].pc = "open"
    /\ pool' = [pool EXCEPT
                   ![i].running = opened_running(pool[i], outcome),
                   ![i].pc = IF outcome = "opened" THEN "loop" ELSE "done",
                   ![i].detector = IF outcome = "opened"
                                   THEN ObjectDetector(pool[i].model_id \o ".pt")
                                   ELSE @]
    /\ last' = Call("open", i, outcome, None, None)
    /\ UNCHANGED <<cameras, camera_configs, zones, current_model,
                   current_tracker, current_segmenter, requests>>

\* _capture_loop: while self.running fails, cap.release()
WorkerReturns(i) ==
    /\ pool[i].pc = "loop"
    /\ ~pool[i].running
    /\ pool' = [pool EXCEPT ![i].pc = "done"]
    /\ last' = Call("release", i, None, None, None)
    /\ UNCHANGED <<cameras, camera_configs, zones, current_model,
                   current_tracker, current_segmenter, requests>>

\* worker.switch_model(model_id): the worker after the call and what the
\* call returned, "raises" when _load_model re-raises
switch_model(w, model_id, outcome) ==
    IF w.detector = NoDetector \/ model_id \notin DOMAIN model_map
    THEN [worker |-> w, result |-> "False"]
    ELSE LET path == model_map[model_id]
         IN CASE outcome = "loaded" ->
                   [worker |-> [w EXCEPT !.detector.model_path = path,
                                         !.detector.model = path,
                                         !.model_id = model_id],
                    result |-> "True"]
              [] outcome = "not_loaded" ->
                   [worker |-> [w EXCEPT !.detector.model_path = path],
                    result |-> "raises"]
              [] outcome = "not_moved" ->
                   [worker |-> [w EXCEPT !.detector.model_path = path,
                                         !.detector.model = path],
                    result |-> "raises"]

\* switch_tracker: self.tracker_id for the name it is called with
tracker_file(tracker_id) ==
    IF tracker_id \in {"none", "", None} THEN None ELSE tracker_id \o ".yaml"

\* worker.switch_tracker(tracker_id)
switch_tracker(w, tracker_id) ==
    [worker |-> [w EXCEPT !.tracker_id = tracker_file(tracker_id)],
     result |-> "True"]

\* worker.switch_segmenter(model_id)
switch_segmenter(w, model_id, outcome) ==
    IF w.detector = NoDetector
    THEN [worker |-> w, result |-> "False"]
    ELSE IF model_id \in DOMAIN sam_map
    THEN LET path == sam_map[model_id]
         IN CASE outcome = "loaded" ->
                   [worker |-> [w EXCEPT !.detector.sam_path = path,
                                         !.detector.sam_model = path,
                                         !.segmentation_id = model_id],
                    result |-> "True"]
              [] outcome = "not_loaded" ->
                   [worker |-> [w EXCEPT !.detector.sam_path = path],
                    result |-> "False"]
              [] outcome = "not_moved" ->
                   [worker |-> [w EXCEPT !.detector.sam_path = path,
                                         !.detector.sam_model = path],
                    result |-> "False"]
    ELSE IF model_id \in {"none", "", None}
    THEN [worker |-> [w EXCEPT !.detector.sam_path = None,
                               !.detector.sam_model = None,
                               !.segmentation_id = model_id],
          result |-> "True"]
    ELSE [worker |-> w, result |-> "False"]

\* del d[k] that deletes nothing
Del_nothing(d, k) == d

\* del d[k]
Del(d, k) == [x \in DOMAIN d \ {k} |-> d[x]]

\* the workers of self.cameras.values(); a dict keeps the order of insertion,
\* which is the order of the workers' creation
registered == {cameras[c] : c \in DOMAIN cameras}

\* the argument of a request: a camera and its zone, or a name
Argument(camera_id, zone_id, name) ==
    [camera_id |-> camera_id, zone_id |-> zone_id, name |-> name]

\* what clients ask of the endpoints
Asked ==
    [op : {"add_camera"},
     arg : {Argument(c, z, None) : c \in CameraIds, z \in ZoneIds}]
    \cup [op : {"remove_camera"},
          arg : {Argument(c, None, None) : c \in CameraIds}]
    \cup [op : {"update_all_workers_model"},
          arg : {Argument(None, None, m) : m \in ModelIds}]
    \cup [op : {"update_all_workers_tracker"},
          arg : {Argument(None, None, t) : t \in TrackerIds}]
    \cup [op : {"update_all_workers_segmenter"},
          arg : {Argument(None, None, s) : s \in SegmenterIds}]
    \cup [op : {"get_status"}, arg : {Argument(None, None, None)}]

\* the record of a handled request: raced tells that an add_camera for the
\* same id, in flight together with this one, succeeded and that the camera
\* has not been removed since
Handled(r, result) ==
    [op |-> r.op, arg |-> r.arg, result |-> result, store |-> None,
     notified |-> None, raced |-> r.raced]

\* a request reaches the server
Receive(client, asked) ==
    /\ Counted
    /\ \A r \in requests : r.client # client
    /\ requests' = requests \cup
                      {[client |-> client, op |-> asked.op, arg |-> asked.arg,
                        raced |-> FALSE]}
    /\ last' = Call("request", asked.arg, None, None, None)
    /\ UNCHANGED <<cameras, camera_configs, zones, current_model,
                   current_tracker, current_segmenter, pool>>

\* add_camera with the test for a registered id left out
is_registered_never(camera_id) == FALSE

\* add_camera: if config.camera_id in self.cameras
is_registered(camera_id) == camera_id \in DOMAIN cameras

\* the requests in flight after r was handled; an add_camera that succeeded
\* marks the add_camera requests for its id, a remove_camera unmarks them
in_flight(r, result) ==
    {IF q.op = "add_camera" /\ q.arg.camera_id = r.arg.camera_id
     THEN [q EXCEPT !.raced =
              IF r.op = "add_camera" /\ result = "True" THEN TRUE
              ELSE IF r.op = "remove_camera" /\ result = "True" THEN FALSE
              ELSE @]
     ELSE q : q \in requests \ {r}}

\* add_camera(config)
AddCamera(r) ==
    /\ r.op = "add_camera"
    /\ LET config == [camera_id |-> r.arg.camera_id, zone_id |-> r.arg.zone_id]
           worker == AsyncVideoWorker(config.camera_id, current_model,
                                      current_tracker, current_segmenter)
       IN IF is_registered(config.camera_id)
          THEN /\ last' = Handled(r, "False")
               /\ requests' = in_flight(r, "False")
               /\ UNCHANGED <<cameras, camera_configs, zones, pool>>
          ELSE /\ Len(pool) < MaxWorkers
               /\ pool' = Append(pool, start(worker))
               /\ cameras' = Put(cameras, config.camera_id, Len(pool) + 1)
               /\ camera_configs' = Put(camera_configs, config.camera_id, config)
               /\ zones' = Put(zones, config.zone_id,
                               [zone_id |-> config.zone_id,
                                camera_id |-> config.camera_id])
               /\ last' = Handled(r, "True")
               /\ requests' = in_flight(r, "True")
    /\ UNCHANGED <<current_model, current_tracker, current_segmenter>>

\* remove_camera: config = self.camera_configs.get(camera_id), read after
\* del self.camera_configs[camera_id]; a config without zone stands for None
removed_config(camera_id, configs_after) ==
    IF camera_id \in DOMAIN configs_after
    THEN configs_after[camera_id]
    ELSE [camera_id |-> camera_id, zone_id |-> None]

\* remove_camera: the zones after the removal of camera_id
zones_after(camera_id, configs_after) ==
    LET config == removed_config(camera_id, configs_after)
        other_cameras == {c \in DOMAIN configs_after :
                             /\ configs_after[c].zone_id = config.zone_id
                             /\ c # camera_id}
    IN IF config.zone_id # None /\ config.zone_id \in DOMAIN zones
          /\ other_cameras = {}
       THEN Del(zones, config.zone_id)
       ELSE zones

\* remove_camera(camera_id)
RemoveCamera(r) ==
    /\ r.op = "remove_camera"
    /\ LET camera_id == r.arg.camera_id
       IN IF camera_id \notin DOMAIN cameras
          THEN /\ last' = Handled(r, "False")
               /\ requests' = in_flight(r, "False")
               /\ UNCHANGED <<cameras, camera_configs, zones, pool>>
          ELSE /\ pool' = [pool EXCEPT ![cameras[camera_id]] = stop(@)]
               /\ cameras' = Del(cameras, camera_id)
               /\ camera_configs' = Del(camera_configs, camera_id)
               /\ zones' = zones_after(camera_id, Del(camera_configs, camera_id))
               /\ last' = Handled(r, "True")
               /\ requests' = in_flight(r, "True")
    /\ UNCHANGED <<current_model, current_tracker, current_segmenter>>

\* the workers a loop over self.cameras.values() reaches when the call made
\* on the worker failing raises: those before it and itself
loop_reached(failing, raised) ==
    {i \in registered : ~raised \/ i <= failing}

\* update_all_workers_model(model_id); the load made for the worker failing,
\* if it makes one, ends as how says
UpdateAllWorkersModel(r, failing, how) ==
    /\ r.op = "update_all_workers_model"
    /\ LET model_id == r.arg.name
           outcome(i) == IF i = failing THEN how ELSE "loaded"
           switched == [i \in DOMAIN pool |->
                           switch_model(pool[i], model_id, outcome(i))]
           raised == failing \in registered
                        /\ switched[failing].result = "raises"
           failed == {i \in loop_reached(failing, raised) :
                         switched[i].result # "True"}
       IN /\ current_model' = model_id
          /\ pool' = [i \in DOMAIN pool |->
                         IF i \in loop_reached(failing, raised)
                         THEN switched[i].worker ELSE pool[i]]
          /\ last' = Handled(r, [raised |-> raised, failed |-> failed])
          /\ requests' = in_flight(r, "None")
    /\ UNCHANGED <<cameras, camera_configs, zones, current_tracker,
                   current_segmenter>>

\* update_all_workers_tracker(tracker_id)
UpdateAllWorkersTracker(r) ==
    /\ r.op = "update_all_workers_tracker"
    /\ current_tracker' = r.arg.name
    /\ pool' = [i \in DOMAIN pool |->
                   IF i \in registered
                   THEN switch_tracker(pool[i], r.arg.name).worker ELSE pool[i]]
    /\ last' = Handled(r, [raised |-> FALSE, failed |-> {}])
    /\ requests' = in_flight(r, "None")
    /\ UNCHANGED <<cameras, camera_configs, zones, current_model,
                   current_segmenter>>

\* update_all_workers_segmenter(model_id)
UpdateAllWorkersSegmenter(r, failing, how) ==
    /\ r.op = "update_all_workers_segmenter"
    /\ LET model_id == r.arg.name
           outcome(i) == IF i = failing THEN how ELSE "loaded"
           switched == [i \in DOMAIN pool |->
                           switch_segmenter(pool[i], model_id, outcome(i))]
       IN /\ current_segmenter' = model_id
          /\ pool' = [i \in DOMAIN pool |->
                         IF i \in registered
                         THEN switched[i].worker ELSE pool[i]]
          /\ last' = Handled(r, [raised |-> FALSE,
                                 failed |-> {i \in registered :
                                                switched[i].result # "True"}])
          /\ requests' = in_flight(r, "None")
    /\ UNCHANGED <<cameras, camera_configs, zones, current_model,
                   current_tracker>>

\* get_status()["cameras"]: camera_id -> running
GetStatus(r) ==
    /\ r.op = "get_status"
    /\ last' = Handled(r, [c \in DOMAIN camera_configs |->
                              IF c \in DOMAIN cameras
                              THEN pool[cameras[c]].running ELSE FALSE])
    /\ requests' = in_flight(r, "None")
    /\ UNCHANGED <<cameras, camera_configs, zones, current_model,
                   current_tracker, current_segmenter, pool>>

\* stop_all with the failure of a worker's stop() leaving the call
stop_all_caught_never(failing) == failing \notin registered

\* stop_all: the except clause around worker.stop() catches what it raises
stop_all_caught(failing) == TRUE

\* stop_all(), called when the server shuts down; stop() of the worker
\* failing, if it is registered, raises after it has cleared running.  The
\* requests in flight are left with no camera registered
StopAll(failing) ==
    LET raised == ~stop_all_caught(failing) IN
    /\ Counted
    /\ pool' = [i \in DOMAIN pool |->
                   IF i \in loop_reached(failing, raised)
                   THEN stop(pool[i]) ELSE pool[i]]
    /\ IF raised
       THEN UNCHANGED <<cameras, camera_configs, zones, requests>>
       ELSE /\ cameras' = <<>>
            /\ zones' = <<>>
            /\ camera_configs' = <<>>
            /\ requests' = {[q EXCEPT !.raced = FALSE] : q \in requests}
    /\ last' = Call("stop_all", failing,
                    [raised |-> raised, stopped |-> registered], None, None)
    /\ UNCHANGED <<current_model, current_tracker, current_segmenter>>

\* ---------------------------------------------------- NotificationManager
\* connect, disconnect and broadcast are coroutines of the one event loop: a
\* coroutine runs alone from one await to the next.  broadcast awaits each
\* send inside its loop over the set; the coroutines of other sockets and
\* other broadcasts run while it is suspended there.

\* broadcast tasks made
MaxBroadcasts == 2

\* the WebSockets that connect, each once, named by the place their hash
\* gives them in the set's table: a loop over the set meets them in this
\* order, whatever the order in which they connect
Sockets == {1, 2, 3}

\* no socket
NoSocket == 0

\* where a broadcast is: suspended in await connection.send_text ("sending"),
\* returned, ended by an exception
Ended == {"done", "failed"}

\* the broadcasts in flight learn that op changed the set; a history
disturb(bs, op) ==
    [b \in DOMAIN bs |->
        IF bs[b].pc \in Ended THEN bs[b]
        ELSE [bs[b] EXCEPT !.disturbed = @ \cup {op}]]

\* connect(websocket): await websocket.accept(), then the add
Connect(ws) ==
    /\ peers[ws] = "new"
    /\ peers' = [peers EXCEPT ![ws] = "open"]
    /\ active_connections' = active_connections \cup {ws}
    /\ broadcasts' = disturb(broadcasts, "connect")
    /\ last' = Call("connect", ws, None, None, None)

\* the peer closes its socket: sends to it fail from now on, and its
\* handler's receive_text raises WebSocketDisconnect
PeerCloses(ws) ==
    /\ peers[ws] = "open"
    /\ peers' = [peers EXCEPT ![ws] = "closed"]
    /\ last' = Call("close", ws, None, None, None)
    /\ UNCHANGED <<active_connections, broadcasts>>

\* websocket_notifications, except WebSocketDisconnect: disconnect(websocket);
\* set.remove raises KeyError for a socket that is not in the set
Disconnect(ws) ==
    /\ peers[ws] = "closed"
    /\ peers' = [peers EXCEPT ![ws] = "gone"]
    /\ IF ws \in active_connections
       THEN /\ active_connections' = active_connections \ {ws}
            /\ broadcasts' = disturb(broadcasts, "disconnect")
            /\ last' = Call("disconnect", ws, None, None, None)
       ELSE /\ last' = Call("disconnect", ws, "KeyError", None, None)
            /\ UNCHANGED <<active_connections, broadcasts>>

\* the iterator's next() after the socket at: the next socket of the set in
\* the table's order, NoSocket at the end of the table
following(connections, at) ==
    IF \E ws \in connections : ws > at
    THEN CHOOSE ws \in connections :
            ws > at /\ \A other \in connections : other > at => ws <= other
    ELSE NoSocket

\* a broadcast task suspended in its first send; subscribers, sent and
\* disturbed are histories
Task(connections) ==
    [pc |-> "sending", used |-> Cardinality(connections),
     current |-> following(connections, NoSocket),
     subscribers |-> connections, sent |-> {}, disconnected |-> {},
     disturbed |-> {}, error |-> None]

\* broadcast(message), up to its first await: nothing to do for an empty
\* set, else the loop's iterator is made and the first send is begun
Broadcast ==
    /\ Len(broadcasts) < MaxBroadcasts
    /\ broadcasts' = Append(broadcasts,
          IF active_connections = {}
          THEN [Task({}) EXCEPT !.pc = "done"]
          ELSE Task(active_connections))
    /\ last' = Call("broadcast", Len(broadcasts) + 1, None, None, None)
    /\ UNCHANGED <<active_connections, peers>>

\* the set after the removal loop, nothing being removed
without_nothing(connections, disconnected) == connections

\* for conn in disconnected: self.active_connections.remove(conn)
without(connections, disconnected) == connections \ disconnected

\* broadcast resumes from await connection.send_text: the send has succeeded
\* or raised; then the iterator's next(), which raises RuntimeError when the
\* set has another size than at the loop's start, and after the last
\* subscriber the removal loop, which raises KeyError on a socket that is no
\* longer in the set, removed of the others being removed before it
Resume(b, removed) ==
    /\ broadcasts[b].pc = "sending"
    /\ LET t == broadcasts[b]
           ok == peers[t.current] = "open"
           after == [t EXCEPT
                        !.sent = IF ok THEN @ \cup {t.current} ELSE @,
                        !.disconnected = IF ok THEN @ ELSE @ \cup {t.current}]
           next == following(active_connections, t.current)
           others == IF without(active_connections, removed) = active_connections
                     THEN broadcasts ELSE disturb(broadcasts, "broadcast")
       IN IF Cardinality(active_connections) # t.used
          THEN /\ removed = {}
               /\ broadcasts' = [broadcasts EXCEPT ![b] =
                     [after EXCEPT !.pc = "failed", !.error = "RuntimeError"]]
               /\ UNCHANGED active_connections
          ELSE IF next # NoSocket
          THEN /\ removed = {}
               /\ broadcasts' = [broadcasts EXCEPT ![b] =
                     [after EXCEPT !.current = next]]
               /\ UNCHANGED active_connections
          ELSE IF after.disconnected \subseteq active_connections
          THEN /\ removed = after.disconnected
               /\ active_connections' = without(active_connections, removed)
               /\ broadcasts' = [others EXCEPT ![b] =
                     [after EXCEPT !.pc = "done"]]
          ELSE /\ removed \subseteq after.disconnected \cap active_connections
               /\ active_connections' = without(active_connections, removed)
               /\ broadcasts' = [others EXCEPT ![b] =
                     [after EXCEPT !.pc = "failed", !.error = "KeyError"]]
    /\ last' = Call("resume", b, None, None, None)
    /\ UNCHANGED peers

\* ------------------------------------- the pipelines and the admin's decisions
\* A worker's capture thread runs VisionPipeline.process_frame, which calls
\* process_detection for each box and create_validation_request when the
\* result is "stable".  approve_validation and reject_validation are called
\* by the endpoints, on the event loop: one runs to its end before the next
\* starts, while the capture threads go on beside them.

\* calls into the engine and logged events, with pipelines and decisions
MaxPipelineCalls == 3
MaxPipelineEvents == 3

\* no approve_validation call is in progress
NoApproval == [pc |-> "idle", id |-> <<>>, admin_id |-> None, size |-> 0,
               visited |-> {}, pending |-> {}]

\* process_detection: tracking.last_seen = timestamp; update_confidence
touch(t, confidence, timestamp) ==
    update_confidence([t EXCEPT !.last_seen = timestamp], confidence)

\* process_detection: tracking.detection_events.append(event)
logged(t, confidence, timestamp) ==
    [t EXCEPT !.detection_events =
        Append(@, DetectionEvent(t.object_type, t.camera_id, confidence,
                                 timestamp))]

\* process_frame calling create_validation_request whatever the result
owes_request_always(temporal_status) == TRUE

\* process_frame: if temporal_status == "stable"
owes_request(temporal_status) == temporal_status = "stable"

\* process_detection: last_seen and the running confidence
TouchTracking(cam) ==
    LET key == <<CameraType, cam>> IN
    /\ workers[cam].pc = "log"
    /\ active_trackings' =
           [active_trackings EXCEPT ![key] =
               touch(@, workers[cam].confidence, workers[cam].timestamp)]
    /\ workers' = [workers EXCEPT ![cam].pc = "append"]
    /\ last' = Call("step", key, None, None, None)
    /\ UNCHANGED <<now, settings, validated_stock, pending_validations,
                   next_serial, alerted, calls, limits>>

\* process_detection: the event goes to the log
AppendEvent(cam) ==
    LET key == <<CameraType, cam>> IN
    /\ workers[cam].pc = "append"
    /\ active_trackings' =
           [active_trackings EXCEPT ![key] =
               logged(@, workers[cam].confidence, workers[cam].timestamp)]
    /\ workers' = [workers EXCEPT ![cam].pc = "settle"]
    /\ last' = Call("step", key, None, None, None)
    /\ UNCHANGED <<now, settings, validated_stock, pending_validations,
                   next_serial, alerted, calls, limits>>

\* process_detection: the test for TRACKING -> STABLE and the return to
\* process_frame, which tests the result
PipelineStatus(cam) ==
    LET key == <<CameraType, cam>>
        stable == became_stable(active_trackings[key])
        temporal_status == IF stable THEN "stable" ELSE "tracking"
    IN /\ workers[cam].pc = "settle"
       /\ active_trackings' =
              [active_trackings EXCEPT ![key].status = IF stable THEN STABLE ELSE @]
       /\ workers' = [workers EXCEPT ![cam] =
                         [IdleWorker EXCEPT !.pc = IF owes_request(temporal_status)
                                                   THEN "create" ELSE "idle"]]
       /\ last' = Call("process_detection",
                       <<CameraType, cam, workers[cam].confidence>>,
                       temporal_status, None, None)
       /\ UNCHANGED <<now, settings, validated_stock, pending_validations,
                      next_serial, alerted, calls, limits>>

\* process_frame: self.temporal_engine.create_validation_request(cls_name,
\* self.camera_id)
PipelineCreate(cam, store, d) ==
    /\ workers[cam].pc = "create"
    /\ CreateRequest(CameraType, cam, store, d)
    /\ workers' = [workers EXCEPT ![cam] = IdleWorker]
    /\ UNCHANGED <<calls, limits>>

\* approve_validation, up to its loop: the tests, the store, the stock, the
\* request; the iteration over active_trackings.items() starts.  An early
\* return is written "False"
BeginApprove(id, admin_id, store) ==
    /\ approval.pc = "idle"
    /\ Counted
    /\ IF not_processable(id)
       THEN /\ store = "ok"
            /\ last' = Call("approve_validation", <<id, admin_id>>, "False", None, None)
            /\ UNCHANGED <<now, settings, engine, next_serial, alerted, approval>>
       ELSE IF approve_aborts(store)
       THEN /\ last' = Call("approve_validation", <<id, admin_id>>, "False", store, None)
            /\ UNCHANGED <<now, settings, engine, next_serial, alerted, approval>>
       ELSE LET validation == pending_validations[id] IN
            /\ validated_stock' = approved_stock(validation)
            /\ pending_validations' =
                   [pending_validations EXCEPT
                       ![id] = approved_request(validation, admin_id, now)]
            /\ approval' =
                   [pc |-> "iterate", id |-> id, admin_id |-> admin_id,
                    size |-> Cardinality(DOMAIN active_trackings),
                    visited |-> {},
                    pending |-> {k \in DOMAIN active_trackings :
                                    /\ k[1] = validation.object_type
                                    /\ active_trackings[k].status
                                           = PENDING_VALIDATION}]
            /\ last' = Call("step", <<id, admin_id>>, None, None, None)
            /\ UNCHANGED <<now, settings, active_trackings, next_serial, alerted>>

\* approve_validation: one pass of the loop over active_trackings.items().
\* The iterator raises RuntimeError when the dict has changed size since the
\* loop started; it ends the loop when every key was visited; else it yields
\* a key not visited yet (the order of the keys is not kept here).  The
\* results of the call are written "True", "False" and "RuntimeError"
ApproveVisit(key) ==
    LET object_type == pending_validations[approval.id].object_type
        ended(result, notified) ==
            /\ approval' = NoApproval
            /\ last' = Call("approve_validation",
                            <<approval.id, approval.admin_id>>, result, "ok",
                            notified)
            /\ UNCHANGED active_trackings
    IN /\ approval.pc = "iterate"
       /\ IF Cardinality(DOMAIN active_trackings) # approval.size
          THEN /\ key = CHOOSE k \in DOMAIN active_trackings : TRUE
               /\ ended("RuntimeError", None)
          ELSE IF approval.visited = DOMAIN active_trackings
          THEN /\ key = CHOOSE k \in DOMAIN active_trackings : TRUE
               /\ ended("True", "VALIDATION_APPROVED")
          ELSE /\ key \notin approval.visited
               /\ active_trackings' =
                      [active_trackings EXCEPT ![key].status =
                          IF key[1] = object_type /\ @ = PENDING_VALIDATION
                          THEN VALIDATED ELSE @]
               /\ approval' = [approval EXCEPT !.visited = @ \cup {key}]
               /\ last' = Call("step", key, None, None, None)
       /\ UNCHANGED <<now, settings, validated_stock, pending_validations,
                      next_serial, alerted, calls, limits>>

\* ------------------------------------------------------------ specification

\* an identifier no request has
UnknownId == <<"VAL", "drill", NoTime>>

\* the identifiers approve and reject are called with
CallIds == DOMAIN pending_validations \cup {UnknownId}

\* the engine as constructed, before any call
EngineInit ==
    /\ now = 0
    /\ stability_duration_minutes \in StabilityChoices
    /\ confidence_threshold = DefaultConfidenceThreshold
    /\ alert_delay_hours \in AlertChoices
    /\ active_trackings = <<>>
    /\ validated_stock = [o \in ObjectTypes |-> 0]
    /\ pending_validations = <<>>
    /\ next_serial = 0
    /\ calls = 0
    /\ alerted = {}
    /\ last = Call("init", None, None, None, None)

\* MultiCameraManager.__init__, no request received
SupervisorInit ==
    /\ cameras = <<>>
    /\ camera_configs = <<>>
    /\ zones = <<>>
    /\ current_model = DefaultModel
    /\ current_tracker = None
    /\ current_segmenter = None
    /\ pool = <<>>
    /\ requests = {}

\* NotificationManager.__init__, no socket connected, no broadcast made
NotifierInit ==
    /\ active_connections = {}
    /\ peers = [ws \in Sockets |-> "new"]
    /\ broadcasts = <<>>

\* CameraView.__init__: no worker process made, an empty queue
DesktopInit ==
    /\ process = NewProcess
    /\ result_queue = <<>>

\* the server and the desktop view as started
ServicesInit ==
    /\ SupervisorInit
    /\ NotifierInit
    /\ DesktopInit
    /\ approval = NoApproval

\* no thread is in a call
ThreadsInit ==
    /\ workers = [c \in Cameras |-> IdleWorker]
    /\ running = FALSE
    /\ thread = NoThread
    /\ frame_queue = <<>>
    /\ capture_loops = <<>>
    /\ frames = 0
    /\ joining = FALSE
    /\ overlapped = FALSE
    /\ ServicesInit

Init ==
    /\ EngineInit
    /\ ThreadsInit
    /\ max_calls = MaxCalls
    /\ max_events = MaxEvents

Next ==
    \/ \E k \in DetectionKeys, conf \in Confidences :
          ProcessDetection(k[1], k[2], conf) /\ UNCHANGED threads
    \/ \E o \in ObjectTypes, c \in Cameras \cup {NoCamera},
          store \in {"ok", "raise"}, d \in Drift :
          CreateValidationRequest(o, c, store, d) /\ UNCHANGED threads
    \/ \E id \in CallIds, a \in AdminIds, store \in StoreOutcomes :
          ApproveValidation(id, a, store) /\ UNCHANGED threads
    \/ \E id \in CallIds, a \in AdminIds, r \in Reasons,
          store \in StoreOutcomes, d \in Drift :
          RejectValidation(id, a, r, store, d) /\ UNCHANGED threads
    \/ CheckAlerts /\ UNCHANGED threads
    \/ \E t \in Instants : AdvanceClock(t - now) /\ UNCHANGED threads

Spec == Init /\ [][Next]_vars

\* ------------------------------------------- a burst of detections on one key

\* the key the burst is reported on
BurstKey == <<"drill", "cam1">>

BurstInit ==
    /\ EngineInit
    /\ ThreadsInit
    /\ max_calls = MaxBurstCalls
    /\ max_events = MaxBurstEvents

BurstNext ==
    \/ \E conf \in Confidences :
          ProcessDetection(BurstKey[1], BurstKey[2], conf) /\ UNCHANGED threads
    \/ \E c \in {BurstKey[2], NoCamera}, store \in {"ok", "raise"}, d \in Drift :
          CreateValidationRequest(BurstKey[1], c, store, d) /\ UNCHANGED threads
    \/ \E t \in Instants : AdvanceClock(t - now) /\ UNCHANGED threads

BurstSpec == BurstInit /\ [][BurstNext]_vars

\* ------------------------------------------ settings changed at run time

ConfigInit ==
    /\ EngineInit
    /\ ThreadsInit
    /\ max_calls = MaxConfigCalls
    /\ max_events = MaxConfigEvents

ConfigNext ==
    \/ \E k \in DetectionKeys, conf \in Confidences :
          ProcessDetection(k[1], k[2], conf) /\ UNCHANGED threads
    \/ \E c \in ConfigChoices, store \in {"ok", "raise"} :
          SetConfig(c[1], c[2], store) /\ UNCHANGED threads
    \/ \E t \in Instants : AdvanceClock(t - now) /\ UNCHANGED threads

ConfigSpec == ConfigInit /\ [][ConfigNext]_vars

\* --------------------------------------- two cameras reporting the same type

CamerasInit ==
    /\ EngineInit
    /\ ThreadsInit
    /\ max_calls = MaxWorkerCalls
    /\ max_events = MaxWorkerEvents

CamerasNext ==
    \/ \E cam \in Cameras, conf \in Confidences :
          BeginDetection(cam, conf) /\ UNCHANGED <<capture, services>>
    \/ \E cam \in Cameras : LookupTracking(cam) /\ UNCHANGED <<capture, services>>
    \/ \E cam \in Cameras : LogDetection(cam) /\ UNCHANGED <<capture, services>>
    \/ \E cam \in Cameras : SettleStatus(cam) /\ UNCHANGED <<capture, services>>
    \/ \E cam \in Cameras : BeginCount(cam) /\ UNCHANGED <<capture, services>>
    \/ \E cam \in Cameras : EndCount(cam) /\ UNCHANGED <<capture, services>>
    \/ \E t \in Instants : AdvanceClock(t - now) /\ UNCHANGED threads

CamerasSpec == CamerasInit /\ [][CamerasNext]_vars

\* ------------------------------------- one worker, its threads, its consumer

WorkerInit ==
    /\ EngineInit
    /\ ThreadsInit
    /\ max_calls = MaxControlCalls
    /\ max_events = MaxEvents

WorkerNext ==
    \/ Start
    \/ Stop
    \/ \E timed_out \in BOOLEAN : JoinReturns(timed_out)
    \/ \E th \in DOMAIN capture_loops, outcome \in OpenOutcomes :
          OpenSource(th, outcome)
    \/ \E th \in DOMAIN capture_loops, ret \in BOOLEAN,
             outcome \in PipelineOutcomes :
          NextFrame(th, ret, outcome)
    \/ \E th \in DOMAIN capture_loops : TestFull(th)
    \/ \E th \in DOMAIN capture_loops : Evict(th)
    \/ \E th \in DOMAIN capture_loops : PutFrame(th)
    \/ GetFrame

WorkerSpec == WorkerInit /\ [][WorkerNext]_vars

\* ------------------------------- the supervisor, its workers, its clients

\* what a step of the supervisor or of its workers leaves alone
unsupervised == <<engine_side, workers, capture, notifier, desktop, approval>>

SupervisorSpecInit ==
    /\ EngineInit
    /\ ThreadsInit
    /\ max_calls = MaxRequests
    /\ max_events = MaxEvents

SupervisorNext ==
    \/ \E client \in Clients, asked \in Asked :
          Receive(client, asked) /\ UNCHANGED unsupervised
    \/ \E r \in requests :
          AddCamera(r) /\ UNCHANGED <<unsupervised, calls, limits>>
    \/ \E r \in requests :
          RemoveCamera(r) /\ UNCHANGED <<unsupervised, calls, limits>>
    \/ \E r \in requests, failing \in 0..Len(pool), how \in LoadOutcomes :
          UpdateAllWorkersModel(r, failing, how)
          /\ UNCHANGED <<unsupervised, calls, limits>>
    \/ \E r \in requests :
          UpdateAllWorkersTracker(r) /\ UNCHANGED <<unsupervised, calls, limits>>
    \/ \E r \in requests, failing \in 0..Len(pool), how \in LoadOutcomes :
          UpdateAllWorkersSegmenter(r, failing, how)
          /\ UNCHANGED <<unsupervised, calls, limits>>
    \/ \E r \in requests :
          GetStatus(r) /\ UNCHANGED <<unsupervised, calls, limits>>
    \/ \E failing \in 0..Len(pool) :
          StopAll(failing) /\ UNCHANGED unsupervised
    \/ \E i \in DOMAIN pool, outcome \in OpenOutcomes :
          WorkerOpens(i, outcome) /\ UNCHANGED <<unsupervised, calls, limits>>
    \/ \E i \in DOMAIN pool :
          WorkerReturns(i) /\ UNCHANGED <<unsupervised, calls, limits>>

SupervisorSpec == SupervisorSpecInit /\ [][SupervisorNext]_vars

\* ------------------------------ the notification manager and its sockets

\* what a step of a socket or of a broadcast leaves alone
unnotified == <<engine_side, workers, capture, supervisor, desktop, approval,
                calls, limits>>

NotifierSpecInit ==
    /\ EngineInit
    /\ ThreadsInit
    /\ max_calls = MaxCalls
    /\ max_events = MaxEvents

NotifierNext ==
    \/ \E ws \in Sockets : Connect(ws) /\ UNCHANGED unnotified
    \/ \E ws \in Sockets : PeerCloses(ws) /\ UNCHANGED unnotified
    \/ \E ws \in Sockets : Disconnect(ws) /\ UNCHANGED unnotified
    \/ Broadcast /\ UNCHANGED unnotified
    \/ \E b \in DOMAIN broadcasts, removed \in SUBSET Sockets :
          Resume(b, removed) /\ UNCHANGED unnotified

NotifierSpec == NotifierSpecInit /\ [][NotifierNext]_vars

\* ------------------------- the two kinds of worker and the frames they handle

\* what a step of the desktop view's worker leaves alone
undisplayed == <<engine_side, workers, capture, supervisor, notifier,
                 approval>>

FramesInit ==
    /\ EngineInit
    /\ ThreadsInit
    /\ max_calls = MaxControlCalls
    /\ max_events = MaxEvents

FramesNext ==
    \/ Start
    \/ \E th \in DOMAIN capture_loops, outcome \in OpenOutcomes :
          OpenSource(th, outcome)
    \/ \E th \in DOMAIN capture_loops, ret \in BOOLEAN,
             outcome \in PipelineOutcomes :
          NextFrame(th, ret, outcome)
    \/ \E th \in DOMAIN capture_loops : TestFull(th)
    \/ \E th \in DOMAIN capture_loops : Evict(th)
    \/ \E th \in DOMAIN capture_loops : PutFrame(th)
    \/ GetFrame
    \/ \E loaded \in BOOLEAN : VideoWorkerStart(loaded) /\ UNCHANGED undisplayed
    \/ \E ready \in BOOLEAN, outcome \in PipelineOutcomes :
          VideoWorkerPass(ready, outcome) /\ UNCHANGED undisplayed
    \/ VideoWorkerStop /\ UNCHANGED undisplayed
    \/ UpdateFrame /\ UNCHANGED undisplayed

FramesSpec == FramesInit /\ [][FramesNext]_vars

\* ------------------------- the cameras' pipelines beside the admin's decisions

\* what a call of the admin leaves alone
undecided == <<workers, capture, supervisor, notifier, desktop>>

\* what a step of a pipeline leaves alone
unpiped == <<capture, services>>

PipelineInit ==
    /\ EngineInit
    /\ ThreadsInit
    /\ max_calls = MaxPipelineCalls
    /\ max_events = MaxPipelineEvents

PipelineNext ==
    \/ \E cam \in Cameras, conf \in Confidences :
          BeginDetection(cam, conf) /\ UNCHANGED unpiped
    \/ \E cam \in Cameras : LookupTracking(cam) /\ UNCHANGED unpiped
    \/ \E cam \in Cameras : TouchTracking(cam) /\ UNCHANGED unpiped
    \/ \E cam \in Cameras : AppendEvent(cam) /\ UNCHANGED unpiped
    \/ \E cam \in Cameras : PipelineStatus(cam) /\ UNCHANGED unpiped
    \/ \E cam \in Cameras, store \in {"ok", "raise"}, d \in Drift :
          PipelineCreate(cam, store, d) /\ UNCHANGED unpiped
    \/ \E id \in CallIds, a \in AdminIds, store \in StoreOutcomes :
          BeginApprove(id, a, store) /\ UNCHANGED undecided
    \/ \E key \in DOMAIN active_trackings :
          ApproveVisit(key) /\ UNCHANGED undecided
    \/ \E id \in CallIds, a \in AdminIds, r \in Reasons,
          store \in StoreOutcomes, d \in Drift :
          /\ approval.pc = "idle"
          /\ RejectValidation(id, a, r, store, d)
          /\ UNCHANGED threads
    \/ \E t \in Instants : AdvanceClock(t - now) /\ UNCHANGED threads

PipelineSpec == PipelineInit /\ [][PipelineNext]_vars

\* --------------------------------- the pipelines, each getting to run its steps

\* a step of the pipeline of cam: a detection reported, or a step of the call
\* it is in
PipelineRuns(cam) ==
    \/ \E conf \in Confidences : BeginDetection(cam, conf) /\ UNCHANGED unpiped
    \/ LookupTracking(cam) /\ UNCHANGED unpiped
    \/ TouchTracking(cam) /\ UNCHANGED unpiped
    \/ AppendEvent(cam) /\ UNCHANGED unpiped
    \/ PipelineStatus(cam) /\ UNCHANGED unpiped
    \/ \E store \in {"ok", "raise"}, d \in Drift :
          PipelineCreate(cam, store, d) /\ UNCHANGED unpiped

\* each capture thread keeps running its pipeline
LiveSpec ==
    /\ PipelineInit
    /\ [][PipelineNext]_vars
    /\ \A cam \in Cameras : WF_vars(PipelineRuns(cam))

\* ------------------------------------------------------------------ claims

\* the trackings a decision on the request id touches: those of the request's
\* object type that are PENDING_VALIDATION before the call
PendingOfRequest(id) ==
    {k \in DOMAIN active_trackings :
        /\ k[1] = pending_validations[id].object_type
        /\ active_trackings[k].status = PENDING_VALIDATION}

\* the id a decision was called with is that of a pending request
DecidesPending ==
    /\ last'.op \in {"approve_validation", "reject_validation"}
    /\ last'.arg[1] \in DOMAIN pending_validations
    /\ pending_validations[last'.arg[1]].status = "pending"

\* C1: when the store does not persist an approval or a rejection (its call
\* does not succeed), approve_validation / reject_validation returns failure
\* and validated_stock, the requests and the trackings are as before the call.
C1_PersistenceFailureChangesNothing ==
    [][(DecidesPending /\ last'.store # "ok")
          => (last'.result = FALSE /\ UNCHANGED engine)]_vars

\* C2: a successful reject_validation leaves each tracking it rejected in a
\* fresh TRACKING state, and a later qualifying detection on such a key that
\* brings last_seen - first_seen to the stability duration makes it STABLE.
C2_RejectRestartsTracking ==
    [][/\ (DecidesPending /\ last'.op = "reject_validation" /\ last'.result = TRUE)
          => \A k \in PendingOfRequest(last'.arg[1]) :
                 active_trackings'[k].status = TRACKING
       /\ (last'.op = "process_detection" /\ last'.result # None)
          => LET k == <<last'.arg[1], last'.arg[2]>>
                 t == active_trackings'[k]
             IN (/\ k \in DOMAIN active_trackings
                 /\ active_trackings[k].status = REJECTED
                 /\ t.last_seen - t.first_seen
                        >= stability_duration_minutes * TicksPerMinute)
                => t.status = STABLE]_vars

\* C3: a qualifying process_detection returns "stable" and moves the tracking
\* from TRACKING to STABLE exactly when the tracking was in TRACKING (or new)
\* and last_seen - first_seen has reached the stability duration after the
\* call; no tracking left in TRACKING has reached it; every other qualifying
\* call returns "tracking" and keeps the status.
C3_StableExactlyAtThreshold ==
    [][(last'.op = "process_detection" /\ last'.result # None)
          => LET k == <<last'.arg[1], last'.arg[2]>>
                 was == IF k \in DOMAIN active_trackings
                        THEN active_trackings[k].status ELSE TRACKING
                 t == active_trackings'[k]
                 reached == t.last_seen - t.first_seen
                                >= stability_duration_minutes * TicksPerMinute
             IN /\ last'.result \in {"stable", "tracking"}
                /\ (last'.result = "stable") <=> (was = TRACKING /\ reached)
                /\ t.status = IF last'.result = "stable" THEN STABLE ELSE was
                /\ \A j \in DOMAIN active_trackings' :
                      active_trackings'[j].status = TRACKING
                      => active_trackings'[j].last_seen
                             - active_trackings'[j].first_seen
                         < stability_duration_minutes * TicksPerMinute]_vars

\* C3 witness: a call returned "stable" for a tracking that an earlier call
\* had left in TRACKING, with a stability duration above zero
C3_Witness ==
    /\ last.op = "process_detection"
    /\ last.result = "stable"
    /\ stability_duration_minutes > 0
    /\ active_trackings[<<last.arg[1], last.arg[2]>>].detection_count >= 2

\* C4: a process_detection whose confidence is below the confidence threshold
\* returns None (ignored) and changes no tracking, request or stock: no
\* tracking is created and an existing one is untouched.
C4_BelowThresholdIgnored ==
    [][(last'.op = "process_detection" /\ last'.arg[3] < confidence_threshold)
          => (last'.result = None /\ UNCHANGED engine)]_vars

\* C4 witness: a detection was ignored on a key that has a tracking, while
\* another reported key has none
C4_Witness ==
    /\ last.op = "process_detection"
    /\ last.result = None
    /\ <<last.arg[1], last.arg[2]>> \in DOMAIN active_trackings
    /\ DetectionKeys \ DOMAIN active_trackings # {}

\* C5: a request created by create_validation_request has an identifier no
\* request held in pending_validations has, so it replaces none.
C5_FreshIdentifier ==
    [][(last'.op = "create_validation_request"
            /\ last'.notified = "VALIDATION_CREATED")
          => last'.result.id \notin DOMAIN pending_validations]_vars

\* C6: after a successful approve_validation, validated_stock of the request's
\* type is its proposed_quantity, the request is approved with the validator
\* and the time set, and every tracking of the type that was
\* PENDING_VALIDATION is VALIDATED.
C6_ApproveAppliesRequest ==
    [][(last'.op = "approve_validation" /\ last'.result = TRUE)
          => LET id == last'.arg[1]
                 before == pending_validations[id]
                 after == pending_validations'[id]
             IN /\ validated_stock'[before.object_type] = before.proposed_quantity
                /\ after.status = "approved"
                /\ after.validated_by = last'.arg[2]
                /\ after.validated_at = now
                /\ \A k \in PendingOfRequest(id) :
                      active_trackings'[k].status = VALIDATED]_vars

\* C6 witness: an approval succeeded and left a VALIDATED tracking and a
\* non-zero validated stock
C6_Witness ==
    /\ last.op = "approve_validation"
    /\ last.result = TRUE
    /\ \E k \in DOMAIN active_trackings :
          /\ active_trackings[k].status = VALIDATED
          /\ validated_stock[k[1]] > 0

\* C7: approve_validation or reject_validation with an unknown identifier or
\* with that of a request already approved or rejected returns failure,
\* changes no stock, request or tracking, and emits no notification.
C7_NotPendingNoEffect ==
    [][(last'.op \in {"approve_validation", "reject_validation"}
            /\ ~DecidesPending)
          => /\ last'.result = FALSE
             /\ last'.notified = None
             /\ UNCHANGED engine]_vars

\* C7 witness: an approve was called on a request already approved
C7_Witness ==
    /\ last.op = "approve_validation"
    /\ last.result = FALSE
    /\ last.arg[1] \in DOMAIN pending_validations
    /\ pending_validations[last.arg[1]].status = "approved"

\* C8: after a successful reject_validation, every tracking of the type that
\* was PENDING_VALIDATION has an empty event log, first_seen = last_seen and
\* zero detection count, total and average confidence; the request is
\* rejected with the reason given.
C8_RejectResetsTrackings ==
    [][(DecidesPending /\ last'.op = "reject_validation" /\ last'.result = TRUE)
          => /\ \A k \in PendingOfRequest(last'.arg[1]) :
                   LET t == active_trackings'[k]
                   IN /\ t.detection_events = <<>>
                      /\ t.first_seen = t.last_seen
                      /\ t.detection_count = 0
                      /\ t.total_confidence = 0
                      /\ t.avg_confidence = 0
             /\ pending_validations'[last'.arg[1]].status = "rejected"
             /\ pending_validations'[last'.arg[1]].rejection_reason
                    = last'.arg[3]]_vars

\* C9: check_alerts returns a request only if no earlier call returned it, it
\* is pending, and alert_delay_hours have passed since created_at, and then
\* sets its alert_sent_at; it leaves every other request as it was; no other
\* operation sets a request's alert_sent_at.
C9_AlertOnceWhenDue ==
    [][\A id \in DOMAIN pending_validations :
          LET v == pending_validations[id]
              w == pending_validations'[id]
          IN IF last'.op = "check_alerts"
             THEN IF v.serial \in last'.result
                  THEN /\ v.serial \notin alerted
                       /\ v.status = "pending"
                       /\ now - v.created_at >= alert_delay_hours * TicksPerHour
                       /\ w.alert_sent_at = now
                  ELSE w = v
             ELSE w.serial = v.serial => w.alert_sent_at = v.alert_sent_at]_vars

\* C9 witness: check_alerts returned a request, an hour or more after its
\* creation
C9_Witness ==
    /\ last.op = "check_alerts"
    /\ last.result # {}
    /\ alert_delay_hours > 0

\* C10: no step moves a tracking's status other than along TRACKING -> STABLE
\* -> PENDING_VALIDATION -> VALIDATED or REJECTED, one state at a time; a new
\* tracking starts in TRACKING, or in STABLE when its first detection already
\* makes it stable; no tracking is removed.
C10_StatusMovesForward ==
    [][/\ DOMAIN active_trackings \subseteq DOMAIN active_trackings'
       /\ \A k \in DOMAIN active_trackings' :
             IF k \in DOMAIN active_trackings
             THEN \/ active_trackings'[k].status = active_trackings[k].status
                  \/ <<active_trackings[k].status, active_trackings'[k].status>>
                        \in {<<TRACKING, STABLE>>,
                             <<STABLE, PENDING_VALIDATION>>,
                             <<PENDING_VALIDATION, VALIDATED>>,
                             <<PENDING_VALIDATION, REJECTED>>}
             ELSE active_trackings'[k].status \in {TRACKING, STABLE}]_vars

\* C10 witness: a rejection has taken a tracking to REJECTED while another
\* tracking of the same type is in an earlier state
C10_Witness ==
    /\ last.op = "reject_validation"
    /\ last.result = TRUE
    /\ \E k, j \in DOMAIN active_trackings :
          /\ k[1] = j[1]
          /\ active_trackings[k].status = REJECTED
          /\ active_trackings[j].status \in {TRACKING, STABLE}

\* C11: a request that is approved or rejected stays as it is: no step, of
\* create_validation_request, approve_validation, reject_validation,
\* check_alerts or any other operation, changes a field of it.
C11_DecidedRequestImmutable ==
    [][\A id \in DOMAIN pending_validations :
          pending_validations[id].status # "pending"
          => /\ id \in DOMAIN pending_validations'
             /\ pending_validations'[id] = pending_validations[id]]_vars

\* C12: a create_validation_request called when the stock delta of its
\* arguments is 0, or when no tracking of the type (on the camera, if one is
\* given) is STABLE, emits no notification, makes no call into the store,
\* changes no request, tracking or stock, and returns None.
C12_NothingToValidateNoEffect ==
    [][(/\ last'.op = "create_validation_request"
        /\ \/ count_stable_objects(last'.arg[1], last'.arg[2])
                  = validated_stock[last'.arg[1]]
           \/ ~ \E k \in DOMAIN active_trackings :
                  /\ k[1] = last'.arg[1]
                  /\ last'.arg[2] \in {NoCamera, k[2]}
                  /\ active_trackings[k].status = STABLE)
          => /\ last'.notified = None
             /\ last'.store = None
             /\ UNCHANGED engine
             /\ last'.result = None]_vars

\* C12 witness: a request was asked for a type and camera with a STABLE
\* tracking whose count equals the validated stock, and none was created
C12_Witness ==
    /\ last.op = "create_validation_request"
    /\ last.notified = None
    /\ validated_stock[last.arg[1]] > 0
    /\ \E k \in DOMAIN active_trackings :
          /\ k = <<last.arg[1], last.arg[2]>>
          /\ active_trackings[k].status = STABLE

\* C13: a create_validation_request that creates a request stores and returns
\* a pending request whose current_quantity is the validated stock of the
\* type, whose proposed_quantity is count_stable_objects of its arguments,
\* whose quantity_delta is their difference and is not 0, and whose camera_ids
\* are the cameras of the matching STABLE trackings; those trackings become
\* PENDING_VALIDATION and every other tracking is as before.
C13_CreatedRequest ==
    [][(last'.op = "create_validation_request"
            /\ last'.notified = "VALIDATION_CREATED")
          => LET o == last'.arg[1]
                 c == last'.arg[2]
                 r == last'.result
                 chosen == {k \in DOMAIN active_trackings :
                               /\ k[1] = o
                               /\ c \in {NoCamera, k[2]}
                               /\ active_trackings[k].status = STABLE}
             IN /\ r.status = "pending"
                /\ r.object_type = o
                /\ r.current_quantity = validated_stock[o]
                /\ r.proposed_quantity = count_stable_objects(o, c)
                /\ r.quantity_delta = r.proposed_quantity - r.current_quantity
                /\ r.quantity_delta # 0
                /\ r.camera_ids = {k[2] : k \in chosen}
                /\ chosen # {}
                /\ pending_validations'[r.id] = r
                /\ DOMAIN active_trackings' = DOMAIN active_trackings
                /\ \A k \in DOMAIN active_trackings :
                      active_trackings'[k] =
                          IF k \in chosen
                          THEN [active_trackings[k] EXCEPT
                                   !.status = PENDING_VALIDATION]
                          ELSE active_trackings[k]]_vars

\* C13 witness: a request was created for one camera while a tracking of the
\* same type on another camera stays STABLE
C13_Witness ==
    /\ last.op = "create_validation_request"
    /\ last.notified = "VALIDATION_CREATED"
    /\ last.arg[2] # NoCamera
    /\ \E k \in DOMAIN active_trackings :
          /\ k[1] = last.arg[1]
          /\ k[2] # last.arg[2]
          /\ active_trackings[k].status = STABLE

\* C14: when the store raises while it persists a new request,
\* create_validation_request still stores the pending request in
\* pending_validations, moves the matching STABLE trackings to
\* PENDING_VALIDATION, emits the created-notification and returns the request.
C14_StoreFailureStillCreates ==
    [][(last'.op = "create_validation_request" /\ last'.store = "raise")
          => /\ last'.notified = "VALIDATION_CREATED"
             /\ last'.result.id \in DOMAIN pending_validations'
             /\ pending_validations'[last'.result.id] = last'.result
             /\ last'.result.status = "pending"
             /\ \A k \in DOMAIN active_trackings :
                   (/\ k[1] = last'.arg[1]
                    /\ last'.arg[2] \in {NoCamera, k[2]}
                    /\ active_trackings[k].status = STABLE)
                   => active_trackings'[k].status = PENDING_VALIDATION]_vars

\* C14 witness: a request was created although the store raised
C14_Witness ==
    /\ last.op = "create_validation_request"
    /\ last.store = "raise"
    /\ \E id \in DOMAIN pending_validations :
          /\ pending_validations[id].status = "pending"
          /\ pending_validations[id].serial = next_serial
    /\ \E k \in DOMAIN active_trackings :
          active_trackings[k].status = PENDING_VALIDATION

\* C16: count_stable_objects(object_type, camera_id) is the number of events,
\* over the trackings of the type (on the camera, if one is given) that are
\* STABLE or PENDING_VALIDATION, whose timestamp is no more than the stability
\* duration before the tracking's last_seen; older events and trackings in
\* TRACKING, VALIDATED or REJECTED are not counted.
C16_CountIsWindowedSum ==
    \A o \in ObjectTypes, c \in Cameras \cup {NoCamera} :
        count_stable_objects(o, c) =
            Cardinality(UNION {
                {<<k, i>> : i \in {j \in 1..Len(active_trackings[k].detection_events) :
                                     active_trackings[k].last_seen
                                       - active_trackings[k].detection_events[j].timestamp
                                     <= stability_duration_minutes * TicksPerMinute}} :
                k \in {x \in DOMAIN active_trackings :
                          /\ x[1] = o
                          /\ c \in {NoCamera, x[2]}
                          /\ active_trackings[x].status
                                 \notin {TRACKING, VALIDATED, REJECTED}}})

\* C16 witness: a counted tracking holds two events of which one is older
\* than the window, and count_stable_objects of its key is 1
C16_Witness ==
    \E k \in DOMAIN active_trackings :
        /\ active_trackings[k].status \in {STABLE, PENDING_VALIDATION}
        /\ Len(active_trackings[k].detection_events) = 2
        /\ count_stable_objects(k[1], k[2]) = 1

\* C18: a step changes validated_stock only if it is an approve_validation of
\* a pending request that returns True and whose persistence step did not
\* raise; process_detection, create_validation_request, reject_validation,
\* check_alerts and failed approve calls leave every quantity as it was.
C18_StockChangedOnlyByApproval ==
    [][(validated_stock' # validated_stock)
          => /\ last'.op = "approve_validation"
             /\ DecidesPending
             /\ last'.store # "raise"
             /\ last'.result = TRUE]_vars

\* C18 witness: an approve of a pending request with a non-zero delta failed
\* in its persistence step and the stock is still 0
C18_Witness ==
    /\ last.op = "approve_validation"
    /\ last.result = FALSE
    /\ last.store = "raise"
    /\ last.arg[1] \in DOMAIN pending_validations
    /\ pending_validations[last.arg[1]].status = "pending"
    /\ pending_validations[last.arg[1]].proposed_quantity > 0
    /\ validated_stock[pending_validations[last.arg[1]].object_type] = 0

\* C15, as documented: with a stability duration of 0, the
\* process_detection call that returns "stable" for a key is the 5th
\* qualifying detection of that key, and not an earlier one.
C15_StableOnFifthDetection ==
    [][(/\ last'.op = "process_detection"
        /\ last'.result = "stable"
        /\ stability_duration_minutes = 0)
          => active_trackings'[<<last'.arg[1], last'.arg[2]>>].detection_count
                 = 5]_vars

\* C15, as the engine behaves: with a stability duration of 0, the first qualifying
\* detection of a key returns "stable" and every later one returns "tracking";
\* with a validated stock of 0, a create_validation_request for the key that
\* creates a request proposes the number of its events whose timestamp is that
\* of the last one, with a delta equal to it: 5 after 5 detections with one
\* timestamp.
C15_StableOnFirstDetection ==
    [][/\ (/\ last'.op = "process_detection"
           /\ last'.result # None
           /\ stability_duration_minutes = 0)
          => LET k == <<last'.arg[1], last'.arg[2]>>
             IN /\ (last'.result = "stable") <=> (k \notin DOMAIN active_trackings)
                /\ (last'.result = "tracking") <=> (k \in DOMAIN active_trackings)
                /\ active_trackings'[k].detection_count
                       = Len(active_trackings'[k].detection_events)
       /\ (/\ last'.op = "create_validation_request"
           /\ last'.notified = "VALIDATION_CREATED"
           /\ stability_duration_minutes = 0
           /\ validated_stock[last'.arg[1]] = 0)
          => LET t == active_trackings[BurstKey]
                 same == {i \in 1..Len(t.detection_events) :
                             t.detection_events[i].timestamp = t.last_seen}
             IN /\ last'.result.proposed_quantity = Cardinality(same)
                /\ last'.result.quantity_delta = Cardinality(same)
                /\ (\A i \in 1..Len(t.detection_events) : i \in same)
                   => last'.result.proposed_quantity = t.detection_count]_vars

\* C15 witness: after 5 detections on the key, all with one timestamp, a
\* request was created that proposes 5 with a delta of 5
C15_Witness ==
    /\ last.op = "create_validation_request"
    /\ last.notified = "VALIDATION_CREATED"
    /\ stability_duration_minutes = 0
    /\ active_trackings[BurstKey].detection_count = 5
    /\ last.result.proposed_quantity = 5
    /\ last.result.quantity_delta = 5

\* C17: with two workers reporting the same object type on different cameras,
\* their steps interleaved in any way, a step that is not of the worker of
\* camera B changes no field of the tracking (type, camB) and does not remove
\* it; the log of a tracking holds the events of its own camera only; and
\* count_stable_objects(type, camA), when it returns, is the number of events
\* of the log of (type, camA) within the window, none of them from camB.
C17_TrackingsIndependent ==
    [][/\ \A b \in Cameras :
             (workers'[b] = workers[b] /\ <<CameraType, b>> \in DOMAIN active_trackings)
             => /\ <<CameraType, b>> \in DOMAIN active_trackings'
                /\ active_trackings'[<<CameraType, b>>]
                       = active_trackings[<<CameraType, b>>]
       /\ \A k \in DOMAIN active_trackings' :
             \A i \in 1..Len(active_trackings'[k].detection_events) :
                 /\ active_trackings'[k].detection_events[i].camera_id = k[2]
                 /\ active_trackings'[k].detection_events[i].object_type = k[1]
       /\ (last'.op = "count_stable_objects" /\ last'.result # RuntimeError)
          => LET a == <<last'.arg[1], last'.arg[2]>>
                 own == IF a \in DOMAIN active_trackings
                           /\ active_trackings[a].status
                                  \in {STABLE, PENDING_VALIDATION}
                        THEN {i \in 1..Len(active_trackings[a].detection_events) :
                                 /\ active_trackings[a].detection_events[i].camera_id
                                        = a[2]
                                 /\ active_trackings[a].last_seen
                                      - active_trackings[a].detection_events[i].timestamp
                                    <= stability_duration_minutes * TicksPerMinute}
                        ELSE {}
             IN last'.result = Cardinality(own)]_vars

\* C17 witness: the worker of one camera got a count of its own events while
\* the worker of the other camera, whose tracking holds events too, is in the
\* middle of a process_detection
C17_Witness ==
    /\ last.op = "count_stable_objects"
    /\ last.result >= 1
    /\ \E b \in Cameras :
          /\ b # last.arg[2]
          /\ workers[b].pc \in {"log", "settle"}
          /\ <<CameraType, b>> \in DOMAIN active_trackings
          /\ Len(active_trackings[<<CameraType, b>>].detection_events) >= 1
          /\ active_trackings[<<CameraType, b>>].status = STABLE

C20_OneCaptureLoop ==
    [][/\ (last'.op = "start" /\ running) => UNCHANGED capture
       /\ Cardinality({th \in DOMAIN capture_loops' :
                          capture_loops'[th].pc # "done"}) <= 1]_vars

\* C21: when stop() returns, the capture loop started by the worker's last
\* start() has returned (its source released), however often stop() is called.
C21_StopEndsCaptureLoop ==
    [][last'.op = "join" => capture_loops[thread].pc = "done"]_vars

\* the source of the worker could not be opened: its thread has returned
\* and running is False without a stop()
source_failed(w) == w.pc = "done" /\ ~w.running /\ ~w.stopped

\* C22: when the source of a worker cannot be opened the worker's running
\* becomes False and no other worker and nothing of the supervisor changes;
\* get_status reports each registered camera's running as its worker holds
\* it, so False for a camera whose source failed.
C22_FailedSourceStopsOnlyItsWorker ==
    [][/\ (last'.op = "open" /\ last'.result = "no_source")
          => /\ ~pool'[last'.arg].running
             /\ \A j \in DOMAIN pool \ {last'.arg} : pool'[j] = pool[j]
             /\ UNCHANGED <<cameras, camera_configs, zones>>
       /\ last'.op = "get_status"
          => \A c \in DOMAIN camera_configs :
                /\ last'.result[c] = pool[cameras[c]].running
                /\ source_failed(pool[cameras[c]]) => ~last'.result[c]]_vars

\* C22 witness: get_status has reported False for a camera whose source
\* failed and True for another camera
C22_Witness ==
    /\ last.op = "get_status"
    /\ \E c, d \in DOMAIN last.result :
          /\ c \in DOMAIN cameras /\ d \in DOMAIN cameras
          /\ source_failed(pool[cameras[c]])
          /\ ~last.result[c]
          /\ last.result[d]

\* C23: add_camera with an id that is registered returns False and leaves
\* the registry, the configurations, the zones and every worker as they were.
C23_DuplicateAddChangesNothing ==
    [][(last'.op = "add_camera" /\ last'.arg.camera_id \in DOMAIN cameras)
          => /\ last'.result = "False"
             /\ UNCHANGED <<cameras, camera_configs, zones, pool,
                            current_model, current_tracker,
                            current_segmenter>>]_vars

\* C23 witness: an add_camera for a registered id, naming another zone than
\* the camera's, has returned False
C23_Witness ==
    /\ last.op = "add_camera"
    /\ last.result = "False"
    /\ last.arg.camera_id \in DOMAIN camera_configs
    /\ camera_configs[last.arg.camera_id].zone_id # last.arg.zone_id
    /\ last.arg.zone_id \notin DOMAIN zones

\* C24: a remove_camera that succeeds stops the worker, removes it and its
\* configuration, and removes the camera's zone when no camera left
\* registered references it.
C24_RemoveDropsUnreferencedZone ==
    [][(last'.op = "remove_camera" /\ last'.result = "True")
          => LET camera_id == last'.arg.camera_id
                 zone_id == camera_configs[camera_id].zone_id
             IN /\ pool'[cameras[camera_id]].stopped
                /\ camera_id \notin DOMAIN cameras'
                /\ camera_id \notin DOMAIN camera_configs'
                /\ (\A c \in DOMAIN camera_configs' :
                       camera_configs'[c].zone_id # zone_id)
                   => zone_id \notin DOMAIN zones']_vars

\* C25: the registered workers hold one tracker setting: a worker made by
\* add_camera is given the setting the workers updated in place hold.
C25_NewWorkersMatchUpdatedWorkers ==
    \A i, j \in registered : pool[i].tracker_id = pool[j].tracker_id

\* C26: each worker that was started and not stopped is the one registered
\* under its id, each registered id has its worker and its configuration, and
\* of two add_camera requests for one id that are in flight together the one
\* handled second fails.
C26_AddRemoveLinearizable ==
    /\ [](/\ \A i \in DOMAIN pool :
                ~pool[i].stopped
                => /\ pool[i].camera_id \in DOMAIN cameras
                   /\ cameras[pool[i].camera_id] = i
          /\ \A c \in DOMAIN cameras :
                /\ cameras[c] \in DOMAIN pool
                /\ pool[cameras[c]].camera_id = c
                /\ ~pool[cameras[c]].stopped
          /\ DOMAIN cameras = DOMAIN camera_configs)
    /\ [][(last'.op = "add_camera" /\ last'.raced)
             => last'.result = "False"]_vars

\* C26 witness: of two add_camera requests for one id in flight together,
\* the second has failed and the first one's worker is registered
C26_Witness ==
    /\ last.op = "add_camera"
    /\ last.raced
    /\ last.result = "False"
    /\ last.arg.camera_id \in DOMAIN cameras
    /\ camera_configs[last.arg.camera_id].zone_id # last.arg.zone_id

\* C30: a swap of the model or of the segmenter that fails on a worker
\* leaves the worker and its detector as they were, and the call returns.
C30_FailedSwapKeepsConfiguration ==
    [][last'.op \in {"update_all_workers_model", "update_all_workers_segmenter"}
          => /\ ~last'.result.raised
             /\ \A i \in last'.result.failed : pool'[i] = pool[i]]_vars

\* the broadcast b ends in this step
Ends(b) == broadcasts[b].pc = "sending" /\ broadcasts'[b].pc \in Ended

C28_BroadcastSurvivesConnectDisconnect ==
    [][\A b \in DOMAIN broadcasts :
          (Ends(b) /\ broadcasts'[b].disturbed \subseteq {"connect", "disconnect"})
          => LET t == broadcasts'[b]
             IN /\ t.pc = "done"
                /\ t.subscribers \cap active_connections
                      \subseteq t.sent \cup t.disconnected]_vars

\* C29: after a change of the settings, a process_detection ignores a
\* detection exactly when its confidence is below the threshold now set, and
\* moves a tracking in TRACKING to STABLE exactly when last_seen - first_seen
\* has reached the stability duration now set, whenever the tracking was
\* created; the change itself leaves every tracking as it was.
C29_SettingsTakeEffectOnNextDetection ==
    [][/\ last'.op = "set_config" => UNCHANGED engine
       /\ last'.op = "process_detection"
          => /\ (last'.result = None) <=> (last'.arg[3] < confidence_threshold)
             /\ last'.result # None
                => LET k == <<last'.arg[1], last'.arg[2]>>
                       was == IF k \in DOMAIN active_trackings
                              THEN active_trackings[k].status ELSE TRACKING
                       t == active_trackings'[k]
                       reached == t.last_seen - t.first_seen
                                     >= stability_duration_minutes * TicksPerMinute
                   IN (last'.result = "stable") <=> (was = TRACKING /\ reached)]_vars

\* C36: a swap that fails on one worker during update_all_workers_model or
\* update_all_workers_segmenter does not escape the call, and every other
\* registered worker that has a detector still gets the setting.
C36_FailedSwapRecoveredLocally ==
    [][last'.op \in {"update_all_workers_model", "update_all_workers_segmenter"}
          => /\ ~last'.result.raised
             /\ \A i \in registered :
                   (i \notin last'.result.failed /\ pool[i].detector # NoDetector)
                      => IF last'.op = "update_all_workers_model"
                         THEN pool'[i].model_id = last'.arg.name
                         ELSE pool'[i].segmentation_id = last'.arg.name]_vars

\* a worker's capture loop is running or about to
loop_alive(w) == w.pc \in {"open", "loop"}

\* C38: a worker whose running flag is true has a capture loop that is
\* executing or about to execute; a loop that ended on a detector that could
\* not be made has left running false.
C38_RunningIsAuthoritative ==
    \A i \in DOMAIN pool : pool[i].running => loop_alive(pool[i])

\* C37: stop_all() stops every registered worker, also when the stop of one
\* of them raises, and leaves cameras, camera_configs and zones empty.
C37_StopAllStopsAndClears ==
    [][last'.op = "stop_all"
          => /\ ~last'.result.raised
             /\ last'.result.stopped = registered
             /\ \A i \in registered : ~pool'[i].running /\ pool'[i].stopped
             /\ cameras' = <<>>
             /\ camera_configs' = <<>>
             /\ zones' = <<>>]_vars

\* C37 witness: stop_all() has returned after the stop of one of two
\* registered workers raised, both are stopped and nothing is registered
C37_Witness ==
    /\ last.op = "stop_all"
    /\ last.arg \in last.result.stopped
    /\ Cardinality(last.result.stopped) = 2
    /\ \A i \in last.result.stopped : ~pool[i].running
    /\ cameras = <<>>

\* the trackings of a request's object type on its contributing cameras
contributors(validation) ==
    {k \in DOMAIN active_trackings :
        k[1] = validation.object_type /\ k[2] \in validation.camera_ids}

\* C39: each request that is still pending has a tracking of its object type
\* on one of its cameras in PENDING_VALIDATION, and approving or rejecting a
\* request leaves the status of the trackings that contributed only to
\* another pending request as it was.
C39_PendingRequestKeepsItsTrackings ==
    /\ [](\A id \in DOMAIN pending_validations :
             pending_validations[id].status = "pending"
             => \E k \in contributors(pending_validations[id]) :
                   active_trackings[k].status = PENDING_VALIDATION)
    /\ [][(/\ last'.op \in {"approve_validation", "reject_validation"}
           /\ last'.result = TRUE)
          => \A other \in DOMAIN pending_validations \ {last'.arg[1]} :
                pending_validations[other].status = "pending"
                => \A k \in contributors(pending_validations[other])
                            \ contributors(pending_validations[last'.arg[1]]) :
                      active_trackings'[k].status = active_trackings[k].status]_vars

\* C35: a read that fails does not end the worker: running stays as it was
\* and the capture loop goes to open its source again before it reads on.
C35_ReadFailureReconnects ==
    [][(last'.op = "read" /\ last'.result = FALSE)
          => /\ running' = running
             /\ capture_loops'[last'.arg].pc = "open"]_vars

\* the capture loop th keeps the frame whose pipeline raised as a result with
\* no detection, about to be pushed, and the worker stays running
kept_without_detections(th) ==
    /\ running' = running
    /\ capture_loops'[th].pc = "full"
    /\ capture_loops'[th].item = last'.result
    /\ capture_loops'[th].detections = 0

\* the capture loop th pushes its result and goes on to the next frame
pushed_and_on(th) ==
    /\ frame_queue' = Append(frame_queue, capture_loops[th].item)
    /\ capture_loops'[th].pc = "test"

\* the worker process is still in its loop, running
process_goes_on == process'.pc = "loop" /\ process'.running

\* C34 as stated: an exception of the pipeline for a frame does not end the
\* capture loop of either worker, the frame's result has no detection and is
\* pushed to the buffer, and the worker goes on with the next frame.
C34_FailedFrameStillPushed ==
    [][/\ (last'.op = "process_frame" /\ capture_loops'[last'.arg].raised)
             => kept_without_detections(last'.arg)
       /\ (last'.op = "put_nowait" /\ capture_loops[last'.arg].raised)
             => pushed_and_on(last'.arg)
       /\ (last'.op = "track" /\ last'.result = "raises")
             => /\ process_goes_on
                /\ result_queue' # result_queue
                /\ result_queue'[Len(result_queue')] =
                       [item |-> last'.arg, detections |-> 0]]_vars

\* C34: an exception of the pipeline for a frame does not end the capture
\* loop of either worker and no detection is reported for the frame:
\* AsyncVideoWorker pushes the frame's result with no detection and goes on
\* with the next frame, VideoWorker sends nothing for the frame and goes on.
C34_FailedFrameDoesNotEndLoop ==
    [][/\ (last'.op = "process_frame" /\ capture_loops'[last'.arg].raised)
             => kept_without_detections(last'.arg)
       /\ (last'.op = "put_nowait" /\ capture_loops[last'.arg].raised)
             => pushed_and_on(last'.arg)
       /\ (last'.op = "track" /\ last'.result = "raises")
             => /\ process_goes_on
                /\ result_queue' = result_queue]_vars

\* C34 witness: the capture loop has pushed the result of a frame whose
\* pipeline raised and is back at its test, and the worker process is in its
\* loop after an inference that raised
C34_Witness ==
    /\ last.op = "put_nowait"
    /\ capture_loops[last.arg].raised
    /\ capture_loops[last.arg].pc = "test"
    /\ frame_queue # <<>>
    /\ frame_queue[Len(frame_queue)] = capture_loops[last.arg].item
    /\ running
    /\ process.raised
    /\ process.pc = "loop"

\* C33: in the frame pipeline a process_detection that returns "stable" is
\* followed by one create_validation_request for its object type and camera,
\* and the pipeline makes that call for no other result.
C33_StableTriggersOneRequest ==
    [][/\ last'.op = "process_detection"
             => ((workers'[last'.arg[2]].pc = "create")
                    <=> (last'.result = "stable"))
       /\ last'.op = "create_validation_request"
             => /\ last'.arg[1] = CameraType
                /\ workers[last'.arg[2]].pc = "create"
                /\ workers'[last'.arg[2]].pc = "idle"
       /\ \A cam \in Cameras :
             (workers[cam].pc = "create" /\ workers'[cam] # workers[cam])
                => /\ last'.op = "create_validation_request"
                   /\ last'.arg = <<CameraType, cam>>]_vars

\* C33 witness: the pipeline of a camera has made the request its stable
\* result called for, and the request was created
C33_Witness ==
    /\ last.op = "create_validation_request"
    /\ last.notified = "VALIDATION_CREATED"
    /\ workers[last.arg[2]].pc = "idle"
    /\ active_trackings[<<last.arg[1], last.arg[2]>>].status = PENDING_VALIDATION

\* C31: when an approve_validation call that has updated the stock and the
\* request ends, no tracking of the type that was PENDING_VALIDATION when the
\* call started is still PENDING_VALIDATION, whatever the worker threads did
\* meanwhile.
C31_ApprovalNeverPartial ==
    [][(last'.op = "approve_validation" /\ approval.pc = "iterate")
          => \A k \in approval.pending :
                active_trackings'[k].status # PENDING_VALIDATION]_vars

\* C32: whenever no call is at work on a tracking, its detection_count is
\* the length of its event log and its total confidence is the sum of the
\* confidences logged.
C32_TrackingUpdatesSerialized ==
    \A k \in DOMAIN active_trackings :
       (k[1] = CameraType => workers[k[2]].pc \in {"idle", "create"})
       => LET t == active_trackings[k]
              n == Len(t.detection_events)
          IN /\ t.detection_count = n
             /\ t.total_confidence =
                    SumOver([i \in 1..n |-> t.detection_events[i].confidence],
                            1..n)

\* the tracking of CameraType on cam is in status
tracking_is(cam, status) ==
    /\ <<CameraType, cam>> \in DOMAIN active_trackings
    /\ active_trackings[<<CameraType, cam>>].status = status

====
